---- MODULE Spec2Model ----
(***************************************************************************)
(* A model of the adaptive decision core of the live order-book imbalance  *)
(* trader: signal function and confirmation filter (strategy.py,           *)
(* run_live.py), risk evaluator (risk.py), walk-forward calibrator         *)
(* (calibration.py) and the poll loop that wires them together             *)
(* (run_live.py).                                                          *)
(*                                                                         *)
(* Python floats are modelled as exact extended rationals <<n, d>> in      *)
(* lowest terms with d >= 0.  d = 0 marks a non-finite value: <<0, 0>> is  *)
(* NaN, <<1, 0>> is +inf and <<-1, 0>> is -inf.  Rounding error of binary  *)
(* floating point is not modelled.                                         *)
(***************************************************************************)
EXTENDS Integers, Sequences, FiniteSets, TLC

VARIABLES
    call,        \* arguments of the evaluate_pending_signal call under study
    decision,    \* TradeDecision it returned (NoDecision before the call)
    rpc,         \* risk harness position: "idle" | "input" | "done"
    settings,    \* RuntimeSettings, fixed at start-up
    signal_history, \* deque(maxlen=confirmation_m) of raw signals
    sig,         \* last signal computation: imbalance, threshold, raw, confirmed
    fed,         \* ghost: every raw signal fed to the confirmation filter, in order
    cal,         \* the WalkForwardCalibrator object (NoCalibrator when absent)
    loop,        \* the locals of run_live.main's poll loop (NoLoop when absent)
    hist,        \* ghost: the (imbalance, mid) of every accepted update, in order
    ret,         \* value returned by the last call of a harness (None before)
    ledger       \* the PaperLedger object (NoLedger when absent)

riskVars == <<call, decision, rpc>>
sigVars == <<signal_history, sig, fed>>
auxVars == <<hist, ret, ledger>>
vars == <<call, decision, rpc, settings, signal_history, sig, fed, cal, loop, hist, ret, ledger>>

----------------------------------------------------------------------------
(* Extended rational arithmetic (Python float, exact).                     *)

Abs(x) == IF x < 0 THEN -x ELSE x

Sign(x) == IF x < 0 THEN -1 ELSE IF x > 0 THEN 1 ELSE 0

RECURSIVE GCD(_, _)
GCD(a, b) == IF b = 0 THEN a ELSE GCD(b, a % b)

R(n, d) ==
    IF d = 0 THEN <<Sign(n), 0>>
    ELSE LET g == GCD(Abs(n), Abs(d))
             s == Sign(d)
         IN  <<(s * n) \div g, (s * d) \div g>>

NaN == <<0, 0>>
PosInf == <<1, 0>>
NegInf == <<-1, 0>>
Zero == <<0, 1>>
One == <<1, 1>>

IsFinite(x) == x[2] # 0

\* Python's <, <=: any comparison with NaN is False.
RLt(a, b) ==
    IF IsFinite(a) /\ IsFinite(b) THEN a[1] * b[2] < b[1] * a[2]
    ELSE IF a = NaN \/ b = NaN THEN FALSE
    ELSE IF IsFinite(a) THEN b = PosInf
    ELSE IF IsFinite(b) THEN a = NegInf
    ELSE a = NegInf /\ b = PosInf

RLe(a, b) == IF a = NaN \/ b = NaN THEN FALSE ELSE a = b \/ RLt(a, b)

RGt(a, b) == RLt(b, a)

RGe(a, b) == RLe(b, a)

RAdd(a, b) == R(a[1] * b[2] + b[1] * a[2], a[2] * b[2])

RNeg(a) == <<-a[1], a[2]>>

RSub(a, b) == RAdd(a, RNeg(b))

RMul(a, b) == R(a[1] * b[1], a[2] * b[2])

\* a / b for finite a and finite b # 0.
RDiv(a, b) == R(a[1] * b[2], a[2] * b[1])

RAbs(a) == <<Abs(a[1]), a[2]>>

\* Python's min(a, b) and max(a, b): the first argument wins unless the
\* second is strictly smaller (larger).
RMin(a, b) == IF RLt(b, a) THEN b ELSE a

RMax(a, b) == IF RGt(b, a) THEN b ELSE a

\* The range of a float, scaled down: MaxFloat stands for the largest
\* finite float (sys.float_info.max) and Fl(x) is the float that an
\* arithmetic result x becomes, +inf or -inf beyond that range.
MaxFloat == R(1000000, 1)

Fl(x) ==
    IF IsFinite(x) /\ x[1] * MaxFloat[2] > MaxFloat[1] * x[2] THEN PosInf
    ELSE IF IsFinite(x) /\ -x[1] * MaxFloat[2] > MaxFloat[1] * x[2] THEN NegInf
    ELSE x

\* floor of a finite rational, as an integer.
RFloor(a) == a[1] \div a[2]

\* Optional[...]: None is the empty sequence, a value v is <<v>>.
None == <<>>

Some(t) == <<t>>

----------------------------------------------------------------------------
(* strategy.py                                                             *)

BUY == "BUY"
SELL == "SELL"
HOLD == "HOLD"

\* Mutant: the comparisons are not strict (>= for >, <= for <).
signal_non_strict(imbalance, threshold) ==
    IF RGe(imbalance, threshold) THEN BUY
    ELSE IF RLe(imbalance, RNeg(threshold)) THEN SELL
    ELSE HOLD

signal_from_imbalance(imbalance, threshold) ==
    IF RGt(imbalance, threshold) THEN BUY
    ELSE IF RLt(imbalance, RNeg(threshold)) THEN SELL
    ELSE HOLD

----------------------------------------------------------------------------
(* run_live.py: the confirmation filter.                                   *)

\* Mutant: a full deque drops the entry that arrives.
deque_append_drop_newest(dq, x, maxlen) ==
    IF Len(dq) >= maxlen THEN dq ELSE Append(dq, x)

\* collections.deque(maxlen=n).append(x): the oldest entry is dropped when
\* the deque is full.
deque_append(dq, x, maxlen) ==
    IF Len(dq) >= maxlen THEN Tail(dq) \o <<x>> ELSE Append(dq, x)

Count(seq, x) == Cardinality({i \in 1..Len(seq) : seq[i] = x})

\* Mutant: one hit more than confirmation_k is required (> for >=).
_confirmed_signal_strict(raw_signal, history, st) ==
    LET pushed == deque_append(history, raw_signal, st.confirmation_m)
    IN  [signal_history |-> pushed,
         confirmed |-> IF raw_signal \notin {BUY, SELL} THEN HOLD
                       ELSE IF Count(pushed, raw_signal) > st.confirmation_k
                            THEN raw_signal
                       ELSE HOLD]

\* _confirmed_signal appends to the deque it is given and returns the
\* confirmed signal: both results are returned here.
_confirmed_signal(raw_signal, history, st) ==
    LET pushed == deque_append(history, raw_signal, st.confirmation_m)
    IN  [signal_history |-> pushed,
         confirmed |-> IF raw_signal \notin {BUY, SELL} THEN HOLD
                       ELSE IF Count(pushed, raw_signal) >= st.confirmation_k
                            THEN raw_signal
                       ELSE HOLD]

----------------------------------------------------------------------------
(* calibration.py                                                          *)

WARMUP == "WARMUP"
CALIBRATING == "CALIBRATING"
TRADING == "TRADING"

MODE_WARMUP_THEN_TRADE == "warmup_then_trade"
MODE_ROLLING_WALK_FORWARD == "rolling_walk_forward"

LabeledObservation(imbalance, forward_return) ==
    [imbalance |-> imbalance, forward_return |-> forward_return]

_safe_mid(best_bid, best_ask) ==
    IF RLe(best_bid, Zero) \/ RLe(best_ask, Zero) THEN Zero
    ELSE RDiv(RAdd(best_bid, best_ask), R(2, 1))

RECURSIVE SumSeq(_)
SumSeq(values) ==
    IF values = <<>> THEN Zero ELSE RAdd(Head(values), SumSeq(Tail(values)))

\* _std_sample squared: the sample variance, 0 when n <= 1 or var <= 0.
\* (The standard deviation itself is irrational in general; only its square
\* is used, see TStatSq.)
VarSample(values, mean) ==
    LET n == Len(values)
        sq == [i \in 1..n |-> RMul(RSub(values[i], mean), RSub(values[i], mean))]
        var == RDiv(SumSeq(sq), R(n - 1, 1))
    IN  IF n <= 1 THEN Zero
        ELSE IF RLe(var, Zero) THEN Zero
        ELSE var

\* The signed square of x: sign(x) * x * x, an order-preserving image of x.
SSq(x) == RMul(R(Sign(x[1]), 1), RMul(x, x))

\* Mutant: a zero deviation always scores -inf, whatever the mean.
ScoreSq_zero_loses(n, mu, var) ==
    IF var = Zero THEN NegInf
    ELSE RDiv(RMul(SSq(mu), R(n, 1)), var)

\* calibration.py lines 199-204: the score mu / (sd / sqrt(n)) as its signed
\* square sign(mu) * mu^2 * n / var; +inf or -inf when sd = 0.
ScoreSq(n, mu, var) ==
    IF var = Zero THEN (IF RGt(mu, Zero) THEN PosInf ELSE NegInf)
    ELSE RDiv(RMul(SSq(mu), R(n, 1)), var)

MeanOf(values) == RDiv(SumSeq(values), R(Len(values), 1))

StatOf(signed_returns, mu) == ScoreSq(Len(signed_returns), mu, VarSample(signed_returns, mu))

TStatSq(signed_returns) == StatOf(signed_returns, MeanOf(signed_returns))

\* candidate["score_adj"] > best["score_adj"], where score_adj = score -
\* penalty and each score is held as its signed square.  Exact: for finite
\* scores t1, t2 (signed squares s1, s2) and c = p1 - p2 it decides
\* t1 - t2 > c by comparing squares.
AdjGt(cand, best) ==
    LET s1 == cand.score_sq
        s2 == best.score_sq
        c == RSub(cand.penalty, best.penalty)
        sgnD == Sign(RSub(s1, s2)[1])
        lhs == SSq(RSub(RAdd(RAbs(s1), RAbs(s2)), RMul(c, c)))
        rhs == RMul(R(4, 1), RMul(s1, s2))
    IN  IF ~IsFinite(s1) \/ ~IsFinite(s2) THEN RGt(s1, s2)
        ELSE IF c = Zero THEN sgnD > 0
        ELSE IF c[1] < 0 THEN (sgnD >= 0 \/ RLt(lhs, rhs))
        ELSE (sgnD > 0 /\ RGt(lhs, rhs))

max_steps == 10000

\* round(theta, 10) of calibration.py line 239, with the ten decimal places
\* scaled to two (10^10 is beyond the integers of the model): the multiple
\* of 1/RoundUnits nearest to x, the even one of two that are equally near.
RoundUnits == 100

round(x) ==
    LET y == RMul(x, R(RoundUnits, 1))
        below == RFloor(y)
        twice == RSub(RMul(y, R(2, 1)), R(2 * below, 1))
        units == IF RGt(twice, One) THEN below + 1
                 ELSE IF RLt(twice, One) THEN below
                 ELSE IF below % 2 = 0 THEN below
                 ELSE below + 1
    IN  R(units, RoundUnits)

\* _threshold_grid: theta = grid_min, grid_min + grid_step, ... while theta
\* <= grid_max and fewer than max_steps steps were taken; thetas <= 0 are
\* left out and the others are rounded.
RECURSIVE GridFrom(_, _, _)
GridFrom(theta, steps, st) ==
    IF RLe(theta, st.thresh_grid_max) /\ steps < max_steps
        THEN (IF RGt(theta, Zero) THEN <<round(theta)>> ELSE <<>>)
             \o GridFrom(RAdd(theta, st.thresh_grid_step), steps + 1, st)
        ELSE <<>>

_threshold_grid(st) == GridFrom(st.thresh_grid_min, 0, st)

FailReport(reason, window_obs) ==
    [theta_hat |-> None, score_sq |-> NegInf, penalty |-> Zero, n |-> 0,
     trade_rate |-> Zero, window_obs |-> window_obs, reason |-> reason]

\* calibration.py lines 186-194: the signed returns theta selects.
RECURSIVE SignedReturns(_, _)
SignedReturns(observations, theta) ==
    IF observations = <<>> THEN <<>>
    ELSE LET obs == Head(observations)
             rest == SignedReturns(Tail(observations), theta)
         IN  IF RGt(obs.imbalance, theta) THEN <<obs.forward_return>> \o rest
             ELSE IF RLt(obs.imbalance, RNeg(theta)) THEN <<RNeg(obs.forward_return)>> \o rest
             ELSE rest

\* calibration.py lines 196-216: the candidate of one theta (valid when
\* n >= min_trades), from the signed returns theta selects.
CandidateOf(signed_returns, theta, window_obs, st) ==
    LET n == Len(signed_returns)
        trade_rate == R(n, st.calibration_w_polls)
    IN  [theta_hat |-> Some(theta),
         score_sq |-> IF n = 0 THEN NegInf ELSE TStatSq(signed_returns),
         penalty |-> RMul(st.calibration_turnover_penalty_alpha, trade_rate),
         n |-> n, trade_rate |-> trade_rate,
         window_obs |-> window_obs, reason |-> "ok"]

Candidate(observations, theta, st) ==
    CandidateOf(SignedReturns(observations, theta), theta, Len(observations), st)

\* Mutant: >= for > in the comparison with the best candidate, so that a
\* later candidate with an equal adjusted score replaces it.
Keep_ge(cand, best, st) ==
    IF cand.n < st.calibration_min_trades THEN best
    ELSE IF best = None \/ ~AdjGt(best[1], cand) THEN Some(cand)
    ELSE best

\* calibration.py lines 196-197 and 217-218: the best candidate so far
\* after cand was looked at.
Keep(cand, best, st) ==
    IF cand.n < st.calibration_min_trades THEN best
    ELSE IF best = None \/ AdjGt(cand, best[1]) THEN Some(cand)
    ELSE best

\* calibration.py lines 184-218: the scan of the grid, keeping the best.
RECURSIVE BestOf(_, _, _, _)
BestOf(grid, best, observations, st) ==
    IF grid = <<>> THEN best
    ELSE BestOf(Tail(grid), Keep(Candidate(observations, Head(grid), st), best, st),
                observations, st)

\* calibration.py lines 220-230: the report of a scan that ended with best.
ReportOf(best, window_obs) ==
    IF best = None THEN FailReport("no_valid_candidate", window_obs) ELSE best[1]

\* Mutant: an empty grid is scanned like any other, so that it ends
\* without a candidate.
ScanGrid_unchecked(grid, observations, st) ==
    ReportOf(BestOf(grid, None, observations, st), Len(observations))

\* calibration.py lines 172-230: the grid search over a given grid.
ScanGrid(grid, observations, st) ==
    IF grid = <<>> THEN FailReport("empty_grid", Len(observations))
    ELSE ReportOf(BestOf(grid, None, observations, st), Len(observations))

_calibrate_threshold(observations, st) ==
    IF Len(observations) < st.calibration_w_polls
        THEN FailReport("insufficient_window", Len(observations))
        ELSE ScanGrid(_threshold_grid(st), observations, st)

\* The calibrator object after __init__ (calibration.py lines 48-67).  ran
\* successes and usable are ghost fields: whether the last call ran
\* _calibrate_threshold, how many calibrations have succeeded, and whether
\* the last call was an update whose snapshot had a usable mid.
NewCalibrator(st) ==
    [mode |-> st.calibration_mode, state |-> WARMUP, last_report |-> None,
     labeled_obs |-> <<>>, pending_obs |-> <<>>, theta_hat |-> None,
     theta_live |-> None, trade_polls_since_calibration |-> 0,
     op |-> "init", ran |-> FALSE, successes |-> 0, usable |-> FALSE]

\* Mutant: the new threshold is never smoothed with the previous one.
ApplyReport_no_ema(c, report, st) ==
    LET c1 == [c EXCEPT !.last_report = Some(report), !.ran = TRUE]
    IN  IF report.theta_hat = None
            THEN IF c.theta_live = None
                     THEN [c1 EXCEPT !.state = WARMUP]
                     ELSE [c1 EXCEPT !.state = TRADING,
                                     !.trade_polls_since_calibration = 0]
            ELSE [c1 EXCEPT !.theta_hat = report.theta_hat,
                            !.theta_live = Some(RMax(report.theta_hat[1], Zero)),
                            !.trade_polls_since_calibration = 0,
                            !.state = CALIBRATING,
                            !.successes = @ + 1]

\* Mutant: a failed attempt goes back to WARMUP whether or not a live
\* threshold exists.
ApplyReport_fail_warmup(c, report, st) ==
    LET c1 == [c EXCEPT !.last_report = Some(report), !.ran = TRUE]
        theta_hat == report.theta_hat[1]
        theta_live ==
            IF RGt(st.calibration_ema_lambda, Zero) /\ c.theta_live # None
                THEN RAdd(RMul(st.calibration_ema_lambda, theta_hat),
                          RMul(RSub(One, st.calibration_ema_lambda), c.theta_live[1]))
                ELSE theta_hat
    IN  IF report.theta_hat = None
            THEN [c1 EXCEPT !.state = WARMUP]
            ELSE [c1 EXCEPT !.theta_hat = Some(theta_hat),
                            !.theta_live = Some(RMax(theta_live, Zero)),
                            !.trade_polls_since_calibration = 0,
                            !.state = CALIBRATING,
                            !.successes = @ + 1]

\* Mutant: a successful calibration enters TRADING at once.
ApplyReport_skips_calibrating(c, report, st) ==
    LET c1 == [c EXCEPT !.last_report = Some(report), !.ran = TRUE]
        theta_hat == report.theta_hat[1]
        theta_live ==
            IF RGt(st.calibration_ema_lambda, Zero) /\ c.theta_live # None
                THEN RAdd(RMul(st.calibration_ema_lambda, theta_hat),
                          RMul(RSub(One, st.calibration_ema_lambda), c.theta_live[1]))
                ELSE theta_hat
    IN  IF report.theta_hat = None
            THEN IF c.theta_live = None
                     THEN [c1 EXCEPT !.state = WARMUP]
                     ELSE [c1 EXCEPT !.state = TRADING,
                                     !.trade_polls_since_calibration = 0]
            ELSE [c1 EXCEPT !.theta_hat = Some(theta_hat),
                            !.theta_live = Some(RMax(theta_live, Zero)),
                            !.trade_polls_since_calibration = 0,
                            !.state = TRADING,
                            !.successes = @ + 1]

\* calibration.py lines 134-157: what _attempt_calibration does with the
\* report of the grid search.
ApplyReport(c, report, st) ==
    LET c1 == [c EXCEPT !.last_report = Some(report), !.ran = TRUE]
        theta_hat == report.theta_hat[1]
        theta_live ==
            IF RGt(st.calibration_ema_lambda, Zero) /\ c.theta_live # None
                THEN RAdd(RMul(st.calibration_ema_lambda, theta_hat),
                          RMul(RSub(One, st.calibration_ema_lambda), c.theta_live[1]))
                ELSE theta_hat
    IN  IF report.theta_hat = None
            THEN IF c.theta_live = None
                     THEN [c1 EXCEPT !.state = WARMUP]
                     ELSE [c1 EXCEPT !.state = TRADING,
                                     !.trade_polls_since_calibration = 0]
            ELSE [c1 EXCEPT !.theta_hat = Some(theta_hat),
                            !.theta_live = Some(RMax(theta_live, Zero)),
                            !.trade_polls_since_calibration = 0,
                            !.state = CALIBRATING,
                            !.successes = @ + 1]

\* Mutant: the grid search leaves its result in _theta_hat.
_calibrate_threshold_stores(c, st) ==
    LET report == _calibrate_threshold(c.labeled_obs, st)
    IN  [self |-> [c EXCEPT !.theta_hat = report.theta_hat], report |-> report]

\* calibration.py lines 159-230 as a method call: the report it returns and
\* the calibrator after the call (it only reads self._labeled_obs and the
\* configuration).
_calibrate_threshold_call(c, st) ==
    [self |-> c, report |-> _calibrate_threshold(c.labeled_obs, st)]

\* Mutant: an attempt that fails falls back to WARMUP although a live
\* threshold exists.
_attempt_calibration_falls_back(c, st) ==
    ApplyReport_fail_warmup(c, _calibrate_threshold(c.labeled_obs, st), st)

\* calibration.py lines 133-157.
_attempt_calibration(c, st) ==
    ApplyReport(c, _calibrate_threshold(c.labeled_obs, st), st)

\* Mutant: the early return for an existing live threshold is missing, so
\* the threshold is recalibrated at every update.
_update_warmup_recalibrates(c, st) ==
    IF Len(c.labeled_obs) < st.calibration_w_polls
        THEN [c EXCEPT !.state = WARMUP]
        ELSE _attempt_calibration(c, st)

\* Mutant: calibration is attempted one observation before the window is
\* full.
_update_warmup_early(c, st) ==
    IF c.theta_live # None
        THEN (IF c.state # CALIBRATING THEN [c EXCEPT !.state = TRADING] ELSE c)
    ELSE IF Len(c.labeled_obs) < st.calibration_w_polls - 1
        THEN [c EXCEPT !.state = WARMUP]
    ELSE _attempt_calibration(c, st)

_update_warmup_then_trade(c, st) ==
    IF c.theta_live # None
        THEN (IF c.state # CALIBRATING THEN [c EXCEPT !.state = TRADING] ELSE c)
    ELSE IF Len(c.labeled_obs) < st.calibration_w_polls
        THEN [c EXCEPT !.state = WARMUP]
    ELSE _attempt_calibration(c, st)

\* Mutant: recalibration waits one poll more than the trade horizon (> for
\* >=).
_update_rolling_late(c, st) ==
    IF c.theta_live = None /\ Len(c.labeled_obs) < st.calibration_w_polls
        THEN [c EXCEPT !.state = WARMUP]
    ELSE IF c.theta_live = None
            \/ c.trade_polls_since_calibration > st.calibration_h_polls
        THEN _attempt_calibration(c, st)
    ELSE IF c.state # CALIBRATING THEN [c EXCEPT !.state = TRADING]
    ELSE c

_update_rolling_walk_forward(c, st) ==
    IF c.theta_live = None /\ Len(c.labeled_obs) < st.calibration_w_polls
        THEN [c EXCEPT !.state = WARMUP]
    ELSE IF c.theta_live = None
            \/ c.trade_polls_since_calibration >= st.calibration_h_polls
        THEN _attempt_calibration(c, st)
    ELSE IF c.state # CALIBRATING THEN [c EXCEPT !.state = TRADING]
    ELSE c

\* Mutant: every update sets the state to TRADING first, whatever it was.
AdvanceAlways(c) == [c EXCEPT !.state = TRADING]

\* Mutant: the state CALIBRATING is never advanced.
AdvanceNever(c) == c

\* calibration.py lines 70-71.
AdvanceCalibrating(c) ==
    IF c.state = CALIBRATING THEN [c EXCEPT !.state = TRADING] ELSE c

\* Mutant: the label pairs the forward return with the imbalance of the
\* current snapshot instead of the one that left the pending queue.
Observe_current_imbalance(c, imbalance, mid, st) ==
    LET pending == Append(c.pending_obs, <<imbalance, mid>>)
        prev == Head(pending)
        forward_return == RSub(RDiv(mid, prev[2]), One)
    IN  IF Len(pending) > st.calibration_horizon_polls
            THEN [c EXCEPT
                    !.pending_obs = Tail(pending),
                    !.labeled_obs =
                        IF RGt(prev[2], Zero) /\ IsFinite(imbalance) /\ IsFinite(forward_return)
                            THEN deque_append(@, LabeledObservation(imbalance, forward_return),
                                              st.calibration_w_polls)
                            ELSE @]
            ELSE [c EXCEPT !.pending_obs = pending]

\* calibration.py lines 80-91: the new snapshot joins the pending queue; the
\* entry it pushes out beyond horizon_polls is labeled with its forward
\* return and joins the window.
Observe(c, imbalance, mid, st) ==
    LET pending == Append(c.pending_obs, <<imbalance, mid>>)
        prev == Head(pending)
        forward_return == RSub(RDiv(mid, prev[2]), One)
    IN  IF Len(pending) > st.calibration_horizon_polls
            THEN [c EXCEPT
                    !.pending_obs = Tail(pending),
                    !.labeled_obs =
                        IF RGt(prev[2], Zero) /\ IsFinite(prev[1]) /\ IsFinite(forward_return)
                            THEN deque_append(@, LabeledObservation(prev[1], forward_return),
                                              st.calibration_w_polls)
                            ELSE @]
            ELSE [c EXCEPT !.pending_obs = pending]

\* calibration.py lines 92-96: the update of the calibrator's mode.
UpdateMode(c, st) ==
    IF c.mode = MODE_WARMUP_THEN_TRADE
        THEN _update_warmup_then_trade(c, st)
        ELSE _update_rolling_walk_forward(c, st)

\* calibration.py lines 69-96: update, after the state CALIBRATING was
\* advanced, for the mid of the snapshot.
UpdateWithMid(c0, imbalance, mid, st) ==
    IF RLe(mid, Zero) THEN c0
    ELSE UpdateMode(Observe([c0 EXCEPT !.usable = TRUE], imbalance, mid, st), st)

update(c, snapshot, st) ==
    UpdateWithMid(AdvanceCalibrating([c EXCEPT !.op = "update", !.ran = FALSE,
                                              !.usable = FALSE]),
                  snapshot.imbalance, _safe_mid(snapshot.bid, snapshot.ask), st)

\* Mutant: the poll is counted in warmup_then_trade mode as well.
current_threshold_any_mode(c, default_threshold) ==
    LET c0 == [c EXCEPT !.op = "current_threshold", !.ran = FALSE, !.usable = FALSE]
    IN  IF c.theta_live # None /\ c.state \in {TRADING, CALIBRATING}
            THEN [c0 EXCEPT !.trade_polls_since_calibration = @ + 1]
            ELSE c0

\* current_threshold returns the threshold and may count a poll: the value
\* returned, and the calibrator afterwards.
current_threshold_value(c, default_threshold) ==
    IF c.theta_live # None THEN c.theta_live[1] ELSE RMax(default_threshold, Zero)

current_threshold(c, default_threshold) ==
    LET c0 == [c EXCEPT !.op = "current_threshold", !.ran = FALSE, !.usable = FALSE]
    IN  IF c.mode = MODE_ROLLING_WALK_FORWARD /\ c.theta_live # None
           /\ c.state \in {TRADING, CALIBRATING}
            THEN [c0 EXCEPT !.trade_polls_since_calibration = @ + 1]
            ELSE c0

----------------------------------------------------------------------------
(* risk.py                                                                 *)

TradeDecision(side, approved, reject_reason, quote_order_qty, quantity, notional_target_usdt) ==
    [side |-> side, approved |-> approved, reject_reason |-> reject_reason,
     quote_order_qty |-> quote_order_qty, quantity |-> quantity,
     notional_target_usdt |-> notional_target_usdt]

Reject(side, reason, notional_target) ==
    TradeDecision(side, FALSE, reason, Zero, Zero, notional_target)

\* Mutant: rounds up to the next whole step (ROUND_UP for ROUND_DOWN).
round_up_step(quantity, step_size) ==
    IF RLe(step_size, Zero) THEN RMax(quantity, Zero)
    ELSE LET q == RMax(quantity, Zero)
             units == -RFloor(RNeg(RDiv(q, step_size)))
         IN  RMul(R(units, 1), step_size)

round_down_step(quantity, step_size) ==
    IF RLe(step_size, Zero) THEN RMax(quantity, Zero)
    ELSE LET q == RMax(quantity, Zero)
             units == RFloor(RDiv(q, step_size))
         IN  RMul(R(units, 1), step_size)

\* Mutant: the cooldown lasts one tick too long (<= for <).
_cooldown_active_le(now_ts, last_trade_ts, cooldown_seconds) ==
    IF last_trade_ts = None THEN FALSE
    ELSE (now_ts - last_trade_ts[1]) <= cooldown_seconds

_cooldown_active(now_ts, last_trade_ts, cooldown_seconds) ==
    IF last_trade_ts = None THEN FALSE
    ELSE (now_ts - last_trade_ts[1]) < cooldown_seconds

_clamp(value, lower, upper) == RMax(lower, RMin(value, upper))

\* Mutant: the excess of the imbalance over the threshold is not divided by
\* 1 - threshold_used.
compute_notional_target_usdt_undivided(imbalance, threshold_used, cfg) ==
    IF ~cfg.enable_position_sizing THEN cfg.max_notional_per_trade_usdt
    ELSE IF ~IsFinite(imbalance) THEN NaN
    ELSE LET abs_imb == _clamp(RAbs(imbalance), Zero, One)
             denom == RSub(One, threshold_used)
             scale == IF cfg.position_sizing_mode = "linear_abs" THEN abs_imb
                      ELSE IF RLe(denom, Zero) THEN Zero
                      ELSE _clamp(RSub(abs_imb, threshold_used), Zero, One)
         IN  _clamp(RMul(cfg.max_notional_per_trade_usdt, scale), Zero,
                    cfg.max_notional_per_trade_usdt)

\* risk.py lines 71-92.
compute_notional_target_usdt(imbalance, threshold_used, cfg) ==
    IF ~cfg.enable_position_sizing THEN cfg.max_notional_per_trade_usdt
    ELSE IF ~IsFinite(imbalance) THEN NaN
    ELSE LET abs_imb == _clamp(RAbs(imbalance), Zero, One)
             denom == RSub(One, threshold_used)
             scale == IF cfg.position_sizing_mode = "linear_abs" THEN abs_imb
                      ELSE IF RLe(denom, Zero) THEN Zero
                      ELSE _clamp(RDiv(RSub(abs_imb, threshold_used), denom), Zero, One)
         IN  _clamp(RMul(cfg.max_notional_per_trade_usdt, scale), Zero,
                    cfg.max_notional_per_trade_usdt)

\* Mutant: the max_abs_position_btc check is left out.
BuyPath_no_position_cap(quote_qty, mid, position_btc, position_usdt, filters, cfg) ==
    LET est_qty == RDiv(quote_qty, mid)
    IN  IF RLt(quote_qty, filters.min_notional)
            THEN Reject(BUY, "below_min_notional_buy", quote_qty)
        ELSE IF RLt(position_usdt, quote_qty)
            THEN Reject(BUY, "insufficient_usdt", quote_qty)
        ELSE IF RLt(est_qty, filters.min_qty)
            THEN Reject(BUY, "below_min_qty_buy", quote_qty)
        ELSE IF RGt(filters.max_qty, Zero) /\ RGt(est_qty, filters.max_qty)
            THEN Reject(BUY, "above_max_qty_buy", quote_qty)
        ELSE IF RLe(est_qty, Zero)
            THEN Reject(BUY, "qty_is_zero", quote_qty)
        ELSE TradeDecision(BUY, TRUE, "", quote_qty, est_qty, quote_qty)

\* risk.py lines 159-211: the BUY path, after the common rejection checks.
BuyPath(quote_qty, mid, position_btc, position_usdt, filters, cfg) ==
    LET est_qty == RDiv(quote_qty, mid)
    IN  IF RLt(quote_qty, filters.min_notional)
            THEN Reject(BUY, "below_min_notional_buy", quote_qty)
        ELSE IF RLt(position_usdt, quote_qty)
            THEN Reject(BUY, "insufficient_usdt", quote_qty)
        ELSE IF RLt(est_qty, filters.min_qty)
            THEN Reject(BUY, "below_min_qty_buy", quote_qty)
        ELSE IF RGt(filters.max_qty, Zero) /\ RGt(est_qty, filters.max_qty)
            THEN Reject(BUY, "above_max_qty_buy", quote_qty)
        ELSE IF RGt(RAdd(position_btc, est_qty), cfg.max_abs_position_btc)
            THEN Reject(BUY, "max_abs_position_exceeded", quote_qty)
        ELSE IF RLe(est_qty, Zero)
            THEN Reject(BUY, "qty_is_zero", quote_qty)
        ELSE TradeDecision(BUY, TRUE, "", quote_qty, est_qty, quote_qty)

\* risk.py lines 239-247: the cap at filters.max_qty, re-rounded down.
CapAtMaxQty(qty, filters) ==
    IF RGt(filters.max_qty, Zero) /\ RGt(qty, filters.max_qty)
        THEN round_down_step(filters.max_qty, filters.step_size)
        ELSE qty

\* risk.py lines 213-262: the SELL path, after the common rejection checks.
SellPath(quote_qty, mid, position_btc, filters) ==
    LET available_btc == RMax(position_btc, Zero)
        max_sell_qty == RDiv(quote_qty, mid)
        raw_qty == RMin(available_btc, max_sell_qty)
        qty0 == round_down_step(raw_qty, filters.step_size)
        qty == CapAtMaxQty(qty0, filters)
    IN  IF RLe(available_btc, Zero)
            THEN Reject(SELL, "insufficient_btc", quote_qty)
        ELSE IF RLe(qty0, Zero)
            THEN Reject(SELL, "rounded_to_zero", quote_qty)
        ELSE IF RLt(qty0, filters.min_qty)
            THEN Reject(SELL, "below_min_qty_sell", quote_qty)
        ELSE IF RGt(filters.max_qty, Zero) /\ RGt(qty0, filters.max_qty)
                /\ RLt(qty, filters.min_qty)
            THEN Reject(SELL, "above_max_qty_sell", quote_qty)
        ELSE IF RLt(RMul(qty, mid), filters.min_notional)
            THEN Reject(SELL, "below_min_notional_sell", quote_qty)
        ELSE TradeDecision(SELL, TRUE, "", Zero, qty, quote_qty)

\* Mutant: the cooldown check is made before the bad_mid check.
evaluate_cooldown_first(pending_signal, mid, imbalance, threshold_used, position_btc, position_usdt, filters, now_ts, last_trade_ts, cfg) ==
    LET notional_target == compute_notional_target_usdt(imbalance, threshold_used, cfg)
        quote_qty == IF cfg.enable_position_sizing THEN notional_target
                     ELSE cfg.max_notional_per_trade_usdt
    IN  IF pending_signal \notin {BUY, SELL}
            THEN Reject(pending_signal, "hold", notional_target)
        ELSE IF _cooldown_active(now_ts, last_trade_ts, cfg.cooldown_seconds)
            THEN Reject(pending_signal, "cooldown_active", notional_target)
        ELSE IF RLe(mid, Zero)
            THEN Reject(pending_signal, "bad_mid", notional_target)
        ELSE IF cfg.enable_position_sizing /\ ~IsFinite(notional_target)
            THEN Reject(pending_signal, "invalid_imbalance", Zero)
        ELSE IF cfg.enable_position_sizing
                /\ RLt(quote_qty, cfg.min_notional_per_trade_usdt)
            THEN Reject(pending_signal, "notional_below_min", quote_qty)
        ELSE IF pending_signal = BUY
            THEN BuyPath(quote_qty, mid, position_btc, position_usdt, filters, cfg)
        ELSE SellPath(quote_qty, mid, position_btc, filters)

evaluate_pending_signal(pending_signal, mid, imbalance, threshold_used, position_btc, position_usdt, filters, now_ts, last_trade_ts, cfg) ==
    LET notional_target == compute_notional_target_usdt(imbalance, threshold_used, cfg)
        quote_qty == IF cfg.enable_position_sizing THEN notional_target
                     ELSE cfg.max_notional_per_trade_usdt
    IN  IF pending_signal \notin {BUY, SELL}
            THEN Reject(pending_signal, "hold", notional_target)
        ELSE IF RLe(mid, Zero)
            THEN Reject(pending_signal, "bad_mid", notional_target)
        ELSE IF cfg.enable_position_sizing /\ ~IsFinite(notional_target)
            THEN Reject(pending_signal, "invalid_imbalance", Zero)
        ELSE IF _cooldown_active(now_ts, last_trade_ts, cfg.cooldown_seconds)
            THEN Reject(pending_signal, "cooldown_active", notional_target)
        ELSE IF cfg.enable_position_sizing
                /\ RLt(quote_qty, cfg.min_notional_per_trade_usdt)
            THEN Reject(pending_signal, "notional_below_min", quote_qty)
        ELSE IF pending_signal = BUY
            THEN BuyPath(quote_qty, mid, position_btc, position_usdt, filters, cfg)
        ELSE SellPath(quote_qty, mid, position_btc, filters)

----------------------------------------------------------------------------
(* The harnesses below each exercise one component; the variables of the   *)
(* others stay at these idle values.                                       *)

NoDecision == [side |-> "", approved |-> FALSE, reject_reason |-> "none"]

NoSettings == [confirmation_m |-> 1, confirmation_k |-> 1]

NoSig == [imbalance |-> Zero, threshold |-> Zero, raw |-> "", confirmed |-> ""]

\* The signal variables when a specification does not use them.
SigIdle == signal_history = <<>> /\ sig = NoSig /\ fed = <<>>

NoCall == [pending_signal |-> ""]

\* The risk harness when a specification does not use it.
RiskIdle == call = NoCall /\ decision = NoDecision /\ rpc = "idle"

NoCalibrator == [mode |-> "DISABLED"]

\* The calibrator when a specification does not use it.
CalIdle == cal = NoCalibrator

NoLoop == [pc |-> "absent"]

\* The poll loop when a specification does not use it.
LoopIdle == loop = NoLoop

NoLedger == [trade_count |-> 0]

\* The history, the returned value and the paper ledger when a specification
\* does not use them.
AuxIdle == hist = <<>> /\ ret = None /\ ledger = NoLedger

----------------------------------------------------------------------------
(* Harness for the calibrator: any sequence of update and                  *)
(* current_threshold calls on one calibrator, in either mode.              *)

WindowSize == 2
HorizonPolls == 1
MaxCalibrations == 2
MaxPollCount == 2

\* Top of book (bid, ask): mid 2 and mid 4.
BookSet == {<<R(1, 1), R(3, 1)>>, <<R(2, 1), R(6, 1)>>}

\* The snapshots of a poll: each book with a finite imbalance, one with an
\* unusable bid (mid 0) and one with a non-finite imbalance.
SnapshotSet ==
    {[bid |-> b[1], ask |-> b[2], imbalance |-> i] :
        b \in BookSet, i \in {R(-1, 1), Zero, R(1, 2)}}
    \cup {[bid |-> Zero, ask |-> R(3, 1), imbalance |-> R(1, 2)],
          [bid |-> R(1, 1), ask |-> R(3, 1), imbalance |-> NaN]}

CalibrationBase ==
    [confirmation_m |-> 1, confirmation_k |-> 1,
     calibration_w_polls |-> WindowSize,
     calibration_horizon_polls |-> HorizonPolls,
     calibration_h_polls |-> 2,
     thresh_grid_min |-> R(1, 4), thresh_grid_max |-> R(3, 4),
     thresh_grid_step |-> R(1, 2),
     threshold |-> R(1, 2)]

CalibrationSettings ==
    {[k \in DOMAIN CalibrationBase \cup DOMAIN v |->
         IF k \in DOMAIN v THEN v[k] ELSE CalibrationBase[k]] :
     v \in {[calibration_mode |-> MODE_WARMUP_THEN_TRADE, calibration_min_trades |-> 2,
             calibration_ema_lambda |-> Zero,
             calibration_turnover_penalty_alpha |-> Zero],
            [calibration_mode |-> MODE_ROLLING_WALK_FORWARD, calibration_min_trades |-> 1,
             calibration_ema_lambda |-> R(1, 2),
             calibration_turnover_penalty_alpha |-> R(1, 2)],
            [calibration_mode |-> MODE_ROLLING_WALK_FORWARD, calibration_min_trades |-> 1,
             calibration_h_polls |-> 1,
             calibration_ema_lambda |-> Zero,
             calibration_turnover_penalty_alpha |-> Zero]}}

InitCalibrator ==
    /\ settings \in CalibrationSettings
    /\ cal = NewCalibrator(settings)
    /\ RiskIdle
    /\ SigIdle
    /\ LoopIdle
    /\ AuxIdle

Update(snapshot) ==
    /\ cal.successes < MaxCalibrations
    /\ cal' = update(cal, snapshot, settings)
    /\ ret' = None
    /\ UNCHANGED <<settings, riskVars, sigVars, loop, hist, ledger>>

\* The configured threshold and its negative (settings.py does not clamp it).
DefaultThresholds == {CalibrationBase.threshold, RNeg(CalibrationBase.threshold)}

CurrentThreshold(default_threshold) ==
    /\ cal.trade_polls_since_calibration < MaxPollCount
    /\ cal' = current_threshold(cal, default_threshold)
    /\ ret' = Some([default_threshold |-> default_threshold,
                    value |-> current_threshold_value(cal, default_threshold)])
    /\ UNCHANGED <<settings, riskVars, sigVars, loop, hist, ledger>>

NextCalibrator ==
    \/ \E sn \in SnapshotSet : Update(sn)
    \/ CurrentThreshold(settings.threshold)

SpecCalibrator == InitCalibrator /\ [][NextCalibrator]_vars

----------------------------------------------------------------------------
(* Harness for current_threshold: the same calibrator, polled with the     *)
(* configured default and with a negative one, between updates from the    *)
(* snapshots with imbalance -1 or 0.                                       *)

ThresholdSnapshots == {sn \in SnapshotSet : sn.imbalance \in {R(-1, 1), Zero}}

NextThreshold ==
    \/ \E sn \in ThresholdSnapshots : Update(sn)
    \/ \E d \in DefaultThresholds : CurrentThreshold(d)

SpecThreshold == InitCalibrator /\ [][NextThreshold]_vars

----------------------------------------------------------------------------
(* Harness for the observation queues of the calibrator: a sequence of     *)
(* update calls, with the accepted snapshots (mid > 0) kept in hist.       *)

MaxUpdates == 5

\* The calibration settings, with label horizons of HorizonPolls and one more.
WindowSettings ==
    {[s EXCEPT !.calibration_horizon_polls = h] :
        s \in CalibrationSettings, h \in HorizonPolls..(HorizonPolls + 1)}

InitWindow ==
    /\ settings \in WindowSettings
    /\ cal = NewCalibrator(settings)
    /\ hist = <<>>
    /\ ret = None
    /\ ledger = NoLedger
    /\ RiskIdle
    /\ SigIdle
    /\ LoopIdle

\* One update call; hist takes the snapshot in when its mid is usable.
Accept(snapshot) ==
    /\ Len(hist) < MaxUpdates
    /\ cal' = update(cal, snapshot, settings)
    /\ hist' = IF RGt(_safe_mid(snapshot.bid, snapshot.ask), Zero)
                   THEN Append(hist, <<snapshot.imbalance,
                                       _safe_mid(snapshot.bid, snapshot.ask)>>)
                   ELSE hist
    /\ UNCHANGED <<settings, riskVars, sigVars, loop, ret, ledger>>

NextWindow == \E sn \in SnapshotSet : Accept(sn)

SpecWindow == InitWindow /\ [][NextWindow]_vars

----------------------------------------------------------------------------
(* Harness for the three queues of a poll (run_live.py lines 293-310): the *)
(* calibrator takes the snapshot in, its threshold gives the raw signal,   *)
(* and the raw signal is fed to the confirmation filter.  hist logs the    *)
(* accepted updates and fed the raw signals.                               *)

QueueSettings ==
    {[s EXCEPT !.confirmation_m = m, !.confirmation_k = 1] :
        s \in {w \in WindowSettings : /\ w.calibration_mode = MODE_ROLLING_WALK_FORWARD
                                      /\ w.calibration_ema_lambda = Zero},
        m \in 1..2}

\* The loop reaches line 293 with a valid top of book only (line 275).
QueueSnapshots ==
    {[bid |-> b[1], ask |-> b[2], imbalance |-> i] :
        b \in BookSet, i \in {NaN, R(-1, 1), R(1, 2)}}

InitQueues ==
    /\ settings \in QueueSettings
    /\ cal = NewCalibrator(settings)
    /\ signal_history = <<>>
    /\ sig = NoSig
    /\ fed = <<>>
    /\ hist = <<>>
    /\ ret = None
    /\ ledger = NoLedger
    /\ RiskIdle
    /\ LoopIdle

PollQueues(snapshot) ==
    /\ Len(fed) < MaxUpdates
    /\ LET c == update(cal, snapshot, settings)
           threshold_used == current_threshold_value(c, settings.threshold)
           raw == signal_from_imbalance(snapshot.imbalance, threshold_used)
           res == _confirmed_signal(raw, signal_history, settings)
       IN  /\ cal' = current_threshold(c, settings.threshold)
           /\ signal_history' = res.signal_history
           /\ sig' = [imbalance |-> snapshot.imbalance, threshold |-> threshold_used,
                      raw |-> raw, confirmed |-> res.confirmed]
           /\ fed' = Append(fed, raw)
    /\ hist' = IF RGt(_safe_mid(snapshot.bid, snapshot.ask), Zero)
                   THEN Append(hist, <<snapshot.imbalance,
                                       _safe_mid(snapshot.bid, snapshot.ask)>>)
                   ELSE hist
    /\ UNCHANGED <<settings, riskVars, loop, ret, ledger>>

NextQueues == \E sn \in QueueSnapshots : PollQueues(sn)

SpecQueues == InitQueues /\ [][NextQueues]_vars

----------------------------------------------------------------------------
(* Harness for one calibration: a calibrator with a full window, before    *)
(* its first calibration or trading on a live threshold, on which          *)
(* _calibrate_threshold and _attempt_calibration are called.               *)

AttemptWindow == 3
MaxCalls == 2

AttemptObservations ==
    {LabeledObservation(i, r) : i \in {R(-1, 1), Zero, R(3, 8), R(5, 8)},
                                r \in {Zero, One}}

AttemptWindows == [1..AttemptWindow -> AttemptObservations]

\* The windows of a calibrator that is still warming up: fewer than
\* AttemptWindow labeled observations.
ShortWindows == UNION {[1..n -> AttemptObservations] : n \in 0..(AttemptWindow - 1)}

\* Grid 1/4, 1/2, 3/4 with every min_trades the window allows, with and
\* without turnover penalty and smoothing; the grid of grid_min =
\* grid_max = 0, which has no theta; and a grid that starts below half a
\* rounding unit.
AttemptSettings ==
    {[CalibrationBase EXCEPT !.calibration_w_polls = AttemptWindow,
                             !.thresh_grid_step = R(1, 4)]
        @@ [calibration_mode |-> MODE_ROLLING_WALK_FORWARD,
            calibration_min_trades |-> m,
            calibration_turnover_penalty_alpha |-> al[1],
            calibration_ema_lambda |-> al[2]] :
        m \in 1..AttemptWindow, al \in {<<Zero, Zero>>, <<One, R(1, 2)>>}}
    \cup
    {[CalibrationBase EXCEPT !.calibration_w_polls = AttemptWindow,
                             !.thresh_grid_min = Zero, !.thresh_grid_max = Zero]
        @@ [calibration_mode |-> MODE_ROLLING_WALK_FORWARD,
            calibration_min_trades |-> 1,
            calibration_turnover_penalty_alpha |-> Zero,
            calibration_ema_lambda |-> Zero]}
    \cup
    {[CalibrationBase EXCEPT !.calibration_w_polls = AttemptWindow,
                             !.thresh_grid_min = R(1, 10 * RoundUnits),
                             !.thresh_grid_max = R(1, 2),
                             !.thresh_grid_step = R(1, 4)]
        @@ [calibration_mode |-> MODE_ROLLING_WALK_FORWARD,
            calibration_min_trades |-> 1,
            calibration_turnover_penalty_alpha |-> Zero,
            calibration_ema_lambda |-> Zero]}

\* The calibrator with window w: in WARMUP without a live threshold, or
\* TRADING on theta_live with the trade horizon reached.
AttemptCalibrator(st, w, theta_live) ==
    [NewCalibrator(st) EXCEPT
        !.labeled_obs = w,
        !.pending_obs = IF w = <<>> THEN <<>> ELSE <<<<w[Len(w)].imbalance, One>>>>,
        !.theta_live = theta_live,
        !.theta_hat = theta_live,
        !.state = IF theta_live = None THEN WARMUP ELSE TRADING,
        !.trade_polls_since_calibration =
            IF theta_live = None THEN 0 ELSE st.calibration_h_polls,
        !.successes = IF theta_live = None THEN 0 ELSE 1]

InitAttempt ==
    /\ settings \in AttemptSettings
    /\ \E w \in AttemptWindows \cup ShortWindows, theta_live \in {None, Some(R(1, 2))} :
          /\ theta_live # None => _threshold_grid(settings) # <<>>
          /\ theta_live # None => w \in AttemptWindows
          /\ theta_live # None =>
                 \E i \in 1..Len(_threshold_grid(settings)) :
                     _threshold_grid(settings)[i] = theta_live[1]
          /\ cal = AttemptCalibrator(settings, w, theta_live)
    /\ hist = <<>>
    /\ ret = None
    /\ ledger = NoLedger
    /\ RiskIdle
    /\ SigIdle
    /\ LoopIdle

Calls == IF ret = None THEN 0 ELSE ret[1].calls

\* report = self._calibrate_threshold()
Calibrate ==
    /\ cal.op = "init"
    /\ Calls < MaxCalls
    /\ LET r == _calibrate_threshold_call(cal, settings)
       IN  /\ cal' = r.self
           /\ ret' = Some([op |-> "_calibrate_threshold", report |-> r.report,
                           calls |-> Calls + 1])
    /\ UNCHANGED <<settings, riskVars, sigVars, loop, hist, ledger>>

\* self._attempt_calibration(), once; without a live threshold update
\* calls it on a full window only (calibration.py lines 112-114, 119-123).
Attempt ==
    /\ cal.op = "init"
    /\ cal.theta_live = None => Len(cal.labeled_obs) >= settings.calibration_w_polls
    /\ cal' = [_attempt_calibration(cal, settings) EXCEPT !.op = "_attempt_calibration"]
    /\ ret' = Some([op |-> "_attempt_calibration", report |-> cal'.last_report[1],
                    calls |-> Calls])
    /\ UNCHANGED <<settings, riskVars, sigVars, loop, hist, ledger>>

NextAttempt == Calibrate \/ Attempt

SpecAttempt == InitAttempt /\ [][NextAttempt]_vars

----------------------------------------------------------------------------
(* Harness for the risk evaluator: one call of evaluate_pending_signal on  *)
(* arguments drawn from bounded sets.                                      *)

MaxTime == 2
MaxMid == 2
MaxUsdt == 6

SymbolFiltersSet ==
    [min_qty : {Zero, R(2, 1)},
     max_qty : {Zero, R(2, 1)},
     step_size : {Zero, R(1, 1000), R(3, 1)},
     min_notional : {Zero, R(5, 1)}]

RiskConfigSet ==
    [cooldown_seconds : {2},
     max_notional_per_trade_usdt : {R(MaxUsdt, 1)},
     min_notional_per_trade_usdt : {Zero, R(3, 1)},
     max_abs_position_btc : {R(3, 1)},
     enable_position_sizing : BOOLEAN,
     position_sizing_mode : {"linear_excess", "linear_abs"}]

CallSet ==
    [pending_signal : {BUY, SELL, HOLD},
     mid : {R(m, 1) : m \in {0, MaxMid}},
     imbalance : {NaN, R(1, 2), R(-3, 2)},
     threshold_used : {R(1, 4), One},
     position_btc : {Zero, R(57, 10000), R(4, 1)},
     position_usdt : {Zero, R(MaxUsdt, 1)},
     filters : SymbolFiltersSet,
     now_ts : 0..MaxTime,
     last_trade_ts : {None} \cup {Some(t) : t \in 0..MaxTime},
     cfg : RiskConfigSet]

\* The poll loop passes wall-clock time, which never runs backwards, and
\* the sizing mode only matters when sizing is enabled.
CallOk(c) ==
    /\ c.last_trade_ts # None => c.last_trade_ts[1] <= c.now_ts
    /\ ~c.cfg.enable_position_sizing =>
           (c.cfg.position_sizing_mode = "linear_excess" /\ c.threshold_used = R(1, 4))

InitRisk ==
    /\ call \in {c \in CallSet : CallOk(c)}
    /\ decision = NoDecision
    /\ rpc = "input"
    /\ settings = NoSettings
    /\ SigIdle
    /\ CalIdle
    /\ LoopIdle
    /\ AuxIdle

Evaluate ==
    /\ rpc = "input"
    /\ decision' = evaluate_pending_signal(call.pending_signal, call.mid, call.imbalance,
                        call.threshold_used, call.position_btc, call.position_usdt,
                        call.filters, call.now_ts, call.last_trade_ts, call.cfg)
    /\ rpc' = "done"
    /\ UNCHANGED <<call, settings, sigVars, cal, loop, auxVars>>

NextRisk == Evaluate

SpecRisk == InitRisk /\ [][NextRisk]_vars

----------------------------------------------------------------------------
(* Harness for the position sizing: one call of                            *)
(* compute_notional_target_usdt on arguments drawn from bounded sets.      *)

NotionalCalls ==
    [imbalance : {NaN, Zero, R(1, 8), R(1, 2), R(-3, 4), One, R(-3, 2)},
     threshold_used : {R(-1, 2), Zero, R(1, 4), One, R(3, 2)},
     cfg : [cooldown_seconds : {2},
            max_notional_per_trade_usdt : {Zero, R(MaxUsdt, 1)},
            min_notional_per_trade_usdt : {Zero},
            max_abs_position_btc : {R(3, 1)},
            enable_position_sizing : BOOLEAN,
            position_sizing_mode : {"linear_excess", "linear_abs"}]]

InitNotional ==
    /\ call \in NotionalCalls
    /\ decision = NoDecision
    /\ rpc = "input"
    /\ settings = NoSettings
    /\ SigIdle
    /\ CalIdle
    /\ LoopIdle
    /\ AuxIdle

ComputeNotional ==
    /\ rpc = "input"
    /\ ret' = Some([op |-> "compute_notional_target_usdt",
                    result |-> compute_notional_target_usdt(call.imbalance,
                                   call.threshold_used, call.cfg)])
    /\ rpc' = "done"
    /\ UNCHANGED <<call, decision, settings, sigVars, cal, loop, hist, ledger>>

NextNotional == ComputeNotional

SpecNotional == InitNotional /\ [][NextNotional]_vars

----------------------------------------------------------------------------
(* Harness for the signal function and the confirmation filter: raw        *)
(* signals computed from drawn imbalances and thresholds are fed to one    *)
(* filter, as the poll loop does (run_live.py lines 305-310).              *)

MaxM == 3
MaxFeed == 4

ImbalanceSet == {NaN, R(-1, 1), R(-1, 2), Zero, R(1, 2), R(1, 1)}

ThresholdSet == {R(-1, 2), Zero, R(1, 2), R(1, 1)}

\* settings.py lines 68-71: 1 <= confirmation_k <= confirmation_m.
ConfirmationSettings ==
    {st \in [confirmation_m : 1..MaxM, confirmation_k : 1..MaxM] :
        st.confirmation_k <= st.confirmation_m}

InitSignal ==
    /\ settings \in ConfirmationSettings
    /\ signal_history = <<>>
    /\ sig = NoSig
    /\ fed = <<>>
    /\ RiskIdle
    /\ CalIdle
    /\ LoopIdle
    /\ AuxIdle

Feed(imbalance, threshold) ==
    /\ Len(fed) < MaxFeed
    /\ LET raw == signal_from_imbalance(imbalance, threshold)
           res == _confirmed_signal(raw, signal_history, settings)
       IN  /\ signal_history' = res.signal_history
           /\ sig' = [imbalance |-> imbalance, threshold |-> threshold,
                      raw |-> raw, confirmed |-> res.confirmed]
           /\ fed' = Append(fed, raw)
    /\ UNCHANGED <<settings, riskVars, cal, loop, auxVars>>

NextSignal == \E i \in ImbalanceSet, t \in ThresholdSet : Feed(i, t)

SpecSignal == InitSignal /\ [][NextSignal]_vars

----------------------------------------------------------------------------
(* execution.py                                                            *)

\* action_taken is held as <<prefix, side>>: <<"DRY_RUN", BUY>> for
\* "DRY_RUN_BUY", <<"", BUY>> for "BUY".
OrderResult(action_taken, approved, order_id, placed, filled) ==
    [action_taken |-> action_taken, approved |-> approved, order_id |-> order_id,
     placed |-> placed, filled |-> filled, error |-> ""]

\* Mutant: the dry-run switch is not looked at.
PostsOrder_live(dec, st) ==
    dec.side # HOLD /\ dec.approved /\ dec.side \in {BUY, SELL}

\* execution.py lines 107-118: the decision reaches client.post.
PostsOrder(dec, st) ==
    dec.side # HOLD /\ dec.approved /\ ~st.dry_run /\ dec.side \in {BUY, SELL}

\* execution.py lines 76-132, when client.post does not raise; net.status is
\* the status of the order the exchange returns.
execute_trade_decision(dec, st, net) ==
    IF dec.side = HOLD THEN OrderResult(<<"", HOLD>>, FALSE, "", FALSE, FALSE)
    ELSE IF ~dec.approved
        THEN OrderResult(<<"SKIP", dec.side>>, FALSE, "", FALSE, FALSE)
    ELSE IF st.dry_run
        THEN OrderResult(<<"DRY_RUN", dec.side>>, TRUE, "SIMULATED", FALSE, FALSE)
    ELSE IF dec.side \notin {BUY, SELL}
        THEN OrderResult(<<"", "UNKNOWN_SIGNAL">>, FALSE, "", FALSE, FALSE)
    ELSE OrderResult(<<"", dec.side>>, TRUE, "order", TRUE, net.status = "FILLED")

----------------------------------------------------------------------------
(* Harness for the order execution: one call of execute_trade_decision on  *)
(* a decision drawn from a bounded set, against an exchange that accepts   *)
(* or refuses the order.                                                   *)

ExecuteDecisions ==
    {TradeDecision(side, approved, reason, quote_order_qty, quantity, quote_order_qty) :
        side \in {BUY, SELL, HOLD, "CLOSE"}, approved \in BOOLEAN,
        reason \in {"", "cooldown_active"},
        quote_order_qty \in {Zero, R(4, 1)}, quantity \in {Zero, R(2, 1)}}

ExchangeSet ==
    {[order |-> "ok", status |-> "FILLED"], [order |-> "ok", status |-> "NEW"],
     [order |-> "raise", status |-> ""]}

InitExecute ==
    /\ decision \in ExecuteDecisions
    /\ settings \in [dry_run : BOOLEAN]
    /\ call = NoCall
    /\ rpc = "input"
    /\ SigIdle
    /\ CalIdle
    /\ LoopIdle
    /\ AuxIdle

\* result = execute_trade_decision(client, symbol, decision, settings):
\* posted tells whether client.post was called, raised whether it raised.
Execute(net) ==
    /\ rpc = "input"
    /\ LET posted == PostsOrder(decision, settings)
           raised == posted /\ net.order = "raise"
       IN  ret' = Some([op |-> "execute_trade_decision", posted |-> posted,
                        raised |-> raised,
                        result |-> IF raised THEN None
                                   ELSE Some(execute_trade_decision(decision, settings, net))])
    /\ rpc' = "done"
    /\ UNCHANGED <<call, decision, settings, sigVars, cal, loop, hist, ledger>>

NextExecute == \E net \in ExchangeSet : Execute(net)

SpecExecute == InitExecute /\ [][NextExecute]_vars

----------------------------------------------------------------------------
(* paper.py.  A call is modelled by the ledger after it (self), whether it *)
(* raised ValueError, and the value it returned (None when it raised).     *)

PaperTradeResult(traded, side, exec_px, executed_qty_btc, trade_notional_usdt, fee_usdt, trade_pnl_usdt) ==
    [traded |-> traded, side |-> side, exec_px |-> exec_px,
     executed_qty_btc |-> executed_qty_btc,
     trade_notional_usdt |-> trade_notional_usdt, fee_usdt |-> fee_usdt,
     trade_pnl_usdt |-> trade_pnl_usdt]

\* PaperTradeResult(side=..., exec_px=...): every other field at its default.
NotTraded(side, exec_px) == PaperTradeResult(FALSE, side, exec_px, Zero, Zero, Zero, Zero)

create_paper_ledger(st, initial_mid) ==
    LET initial_equity == Fl(RAdd(st.paper_start_usdt, Fl(RMul(st.paper_start_btc, initial_mid))))
    IN  [paper_usdt |-> st.paper_start_usdt, paper_btc |-> st.paper_start_btc,
         fee_rate |-> st.paper_fee_rate, slippage_bps |-> st.paper_slippage_bps,
         initial_equity_usdt |-> initial_equity, trade_count |-> 0, win_count |-> 0,
         equity_peak_usdt |-> initial_equity, max_drawdown_usdt |-> Zero]

\* Mutant: the drawdown is measured from the initial equity instead of
\* the running peak.
mark_to_market_from_initial(l, mid) ==
    LET equity == Fl(RAdd(l.paper_usdt, Fl(RMul(l.paper_btc, mid))))
        peak == IF RGt(equity, l.equity_peak_usdt) THEN equity ELSE l.equity_peak_usdt
        drawdown == Fl(RSub(l.initial_equity_usdt, equity))
        pnl == Fl(RSub(equity, l.initial_equity_usdt))
        marked == [l EXCEPT !.equity_peak_usdt = peak,
                            !.max_drawdown_usdt = IF RGt(drawdown, @) THEN drawdown ELSE @]
    IN  IF ~IsFinite(mid) \/ ~IsFinite(l.paper_usdt) \/ ~IsFinite(l.paper_btc)
            THEN [self |-> l, raised |-> TRUE, result |-> None]
        ELSE IF ~IsFinite(equity) \/ ~IsFinite(pnl)
            THEN [self |-> marked, raised |-> TRUE, result |-> None]
        ELSE [self |-> marked, raised |-> FALSE, result |-> Some(<<equity, pnl>>)]

\* paper.py lines 33-46.  The checks of lines 34-36 come before any
\* assignment, those of lines 44-45 after the peak and the drawdown were
\* updated.  The sums and products are floats (Fl): they overflow to an
\* infinity.
mark_to_market(l, mid) ==
    LET equity == Fl(RAdd(l.paper_usdt, Fl(RMul(l.paper_btc, mid))))
        peak == IF RGt(equity, l.equity_peak_usdt) THEN equity ELSE l.equity_peak_usdt
        drawdown == Fl(RSub(peak, equity))
        pnl == Fl(RSub(equity, l.initial_equity_usdt))
        marked == [l EXCEPT !.equity_peak_usdt = peak,
                            !.max_drawdown_usdt = IF RGt(drawdown, @) THEN drawdown ELSE @]
    IN  IF ~IsFinite(mid) \/ ~IsFinite(l.paper_usdt) \/ ~IsFinite(l.paper_btc)
            THEN [self |-> l, raised |-> TRUE, result |-> None]
        ELSE IF ~IsFinite(equity) \/ ~IsFinite(pnl)
            THEN [self |-> marked, raised |-> TRUE, result |-> None]
        ELSE [self |-> marked, raised |-> FALSE, result |-> Some(<<equity, pnl>>)]

\* Mutant: a BUY fills at the bid and a SELL at the ask.
_exec_px_near_side(best_bid, best_ask, side, slippage_bps) ==
    LET slip == RDiv(RMax(slippage_bps, Zero), R(10000, 1))
    IN  IF side = BUY THEN RMul(best_bid, RAdd(One, slip))
        ELSE IF side = SELL THEN RMul(best_ask, RSub(One, slip))
        ELSE Zero

_exec_px(best_bid, best_ask, side, slippage_bps) ==
    LET slip == RDiv(RMax(slippage_bps, Zero), R(10000, 1))
    IN  IF side = BUY THEN RMul(best_ask, RAdd(One, slip))
        ELSE IF side = SELL THEN RMul(best_bid, RSub(One, slip))
        ELSE Zero

\* Mutant: a SELL credits the gross proceeds, the fee is not taken off.
PaperFill_gross(l, side, quote_order_qty, quantity, mid, exec_px) ==
    LET before_equity == RAdd(l.paper_usdt, RMul(l.paper_btc, mid))
        spend_usdt == RMin(RMax(quote_order_qty, Zero), l.paper_usdt)
        sell_qty == RMin(RMax(quantity, Zero), l.paper_btc)
        notional == IF side = BUY THEN spend_usdt ELSE RMul(sell_qty, exec_px)
        fee_usdt == RMul(notional, l.fee_rate)
        bought_btc == RDiv(RMax(Zero, RSub(spend_usdt, fee_usdt)), exec_px)
        qty == IF side = BUY THEN bought_btc ELSE sell_qty
        filled == IF side = BUY
                      THEN [l EXCEPT !.paper_usdt = RSub(@, spend_usdt),
                                     !.paper_btc = RAdd(@, bought_btc)]
                      ELSE [l EXCEPT !.paper_btc = RSub(@, sell_qty),
                                     !.paper_usdt = RAdd(@, notional)]
        trade_pnl == RSub(RAdd(filled.paper_usdt, RMul(filled.paper_btc, mid)), before_equity)
    IN  IF ~IsFinite(l.paper_usdt) \/ ~IsFinite(l.paper_btc)
            THEN [self |-> l, raised |-> TRUE, result |-> None]
        ELSE IF (side = BUY /\ RLe(spend_usdt, Zero)) \/ (side # BUY /\ RLe(sell_qty, Zero))
            THEN [self |-> l, raised |-> FALSE, result |-> Some(NotTraded(side, exec_px))]
        ELSE IF ~IsFinite(filled.paper_usdt) \/ ~IsFinite(filled.paper_btc)
            THEN [self |-> filled, raised |-> TRUE, result |-> None]
        ELSE [self |-> [filled EXCEPT !.trade_count = @ + 1,
                                      !.win_count = IF RGt(trade_pnl, Zero) THEN @ + 1 ELSE @],
              raised |-> FALSE,
              result |-> Some(PaperTradeResult(TRUE, side, exec_px, qty, notional,
                                               fee_usdt, trade_pnl))]

\* Mutant: a trade with a P&L below 0 is counted as a win.
PaperFill_counts_losses(l, side, quote_order_qty, quantity, mid, exec_px) ==
    LET before_equity == RAdd(l.paper_usdt, RMul(l.paper_btc, mid))
        spend_usdt == RMin(RMax(quote_order_qty, Zero), l.paper_usdt)
        sell_qty == RMin(RMax(quantity, Zero), l.paper_btc)
        notional == IF side = BUY THEN spend_usdt ELSE RMul(sell_qty, exec_px)
        fee_usdt == RMul(notional, l.fee_rate)
        bought_btc == RDiv(RMax(Zero, RSub(spend_usdt, fee_usdt)), exec_px)
        qty == IF side = BUY THEN bought_btc ELSE sell_qty
        filled == IF side = BUY
                      THEN [l EXCEPT !.paper_usdt = RSub(@, spend_usdt),
                                     !.paper_btc = RAdd(@, bought_btc)]
                      ELSE [l EXCEPT !.paper_btc = RSub(@, sell_qty),
                                     !.paper_usdt = RAdd(@, RSub(notional, fee_usdt))]
        trade_pnl == RSub(RAdd(filled.paper_usdt, RMul(filled.paper_btc, mid)), before_equity)
    IN  IF ~IsFinite(l.paper_usdt) \/ ~IsFinite(l.paper_btc)
            THEN [self |-> l, raised |-> TRUE, result |-> None]
        ELSE IF (side = BUY /\ RLe(spend_usdt, Zero)) \/ (side # BUY /\ RLe(sell_qty, Zero))
            THEN [self |-> l, raised |-> FALSE, result |-> Some(NotTraded(side, exec_px))]
        ELSE IF ~IsFinite(filled.paper_usdt) \/ ~IsFinite(filled.paper_btc)
            THEN [self |-> filled, raised |-> TRUE, result |-> None]
        ELSE [self |-> [filled EXCEPT !.trade_count = @ + 1,
                                      !.win_count = IF RLt(trade_pnl, Zero) THEN @ + 1 ELSE @],
              raised |-> FALSE,
              result |-> Some(PaperTradeResult(TRUE, side, exec_px, qty, notional,
                                               fee_usdt, trade_pnl))]

\* paper.py lines 107-136 and 138-164: the trade itself, once the guards of
\* lines 90-105 were passed.  The balances are assigned before the check of
\* lines 120 and 148.
PaperFill(l, side, quote_order_qty, quantity, mid, exec_px) ==
    LET before_equity == RAdd(l.paper_usdt, RMul(l.paper_btc, mid))
        spend_usdt == RMin(RMax(quote_order_qty, Zero), l.paper_usdt)
        sell_qty == RMin(RMax(quantity, Zero), l.paper_btc)
        notional == IF side = BUY THEN spend_usdt ELSE RMul(sell_qty, exec_px)
        fee_usdt == RMul(notional, l.fee_rate)
        bought_btc == RDiv(RMax(Zero, RSub(spend_usdt, fee_usdt)), exec_px)
        qty == IF side = BUY THEN bought_btc ELSE sell_qty
        filled == IF side = BUY
                      THEN [l EXCEPT !.paper_usdt = RSub(@, spend_usdt),
                                     !.paper_btc = RAdd(@, bought_btc)]
                      ELSE [l EXCEPT !.paper_btc = RSub(@, sell_qty),
                                     !.paper_usdt = RAdd(@, RSub(notional, fee_usdt))]
        trade_pnl == RSub(RAdd(filled.paper_usdt, RMul(filled.paper_btc, mid)), before_equity)
    IN  IF ~IsFinite(l.paper_usdt) \/ ~IsFinite(l.paper_btc)
            THEN [self |-> l, raised |-> TRUE, result |-> None]
        ELSE IF (side = BUY /\ RLe(spend_usdt, Zero)) \/ (side # BUY /\ RLe(sell_qty, Zero))
            THEN [self |-> l, raised |-> FALSE, result |-> Some(NotTraded(side, exec_px))]
        ELSE IF ~IsFinite(filled.paper_usdt) \/ ~IsFinite(filled.paper_btc)
            THEN [self |-> filled, raised |-> TRUE, result |-> None]
        ELSE [self |-> [filled EXCEPT !.trade_count = @ + 1,
                                      !.win_count = IF RGt(trade_pnl, Zero) THEN @ + 1 ELSE @],
              raised |-> FALSE,
              result |-> Some(PaperTradeResult(TRUE, side, exec_px, qty, notional,
                                               fee_usdt, trade_pnl))]

\* paper.py lines 80-164.  action_taken is held as <<prefix, side>>, so
\* action_taken.startswith("DRY_RUN_") is action_taken[1] = "DRY_RUN".
apply_dry_run_trade(l, action_taken, approved, side, quote_order_qty, quantity, best_bid, best_ask) ==
    LET exec_px == _exec_px(best_bid, best_ask, side, l.slippage_bps)
    IN  IF ~approved \/ action_taken[1] # "DRY_RUN"
            THEN [self |-> l, raised |-> FALSE, result |-> Some(NotTraded("", Zero))]
        ELSE IF side \notin {BUY, SELL}
            THEN [self |-> l, raised |-> FALSE, result |-> Some(NotTraded("", Zero))]
        ELSE IF RLe(best_bid, Zero) \/ RLe(best_ask, Zero) \/ RGe(best_bid, best_ask)
            THEN [self |-> l, raised |-> FALSE, result |-> Some(NotTraded(side, Zero))]
        ELSE IF RLe(exec_px, Zero)
            THEN [self |-> l, raised |-> FALSE, result |-> Some(NotTraded(side, exec_px))]
        ELSE PaperFill(l, side, quote_order_qty, quantity,
                       RDiv(RAdd(best_bid, best_ask), R(2, 1)), exec_px)

----------------------------------------------------------------------------
(* Harness for the paper ledger: a ledger made by create_paper_ledger, on  *)
(* which mark_to_market and apply_dry_run_trade are called as main calls   *)
(* them: at most one trade between two marks.  hist is the sequence of     *)
(* the equities that mark_to_market has returned.                         *)

MaxMarks == 3
MaxTrades == 2

InitialMid == R(1000, 1)

PaperSettings ==
    {[paper_start_usdt |-> Zero, paper_start_btc |-> One,
      paper_fee_rate |-> Zero, paper_slippage_bps |-> Zero],
     [paper_start_usdt |-> R(1000, 1), paper_start_btc |-> R(1, 2),
      paper_fee_rate |-> R(1, 10), paper_slippage_bps |-> R(1000, 1)],
     [paper_start_usdt |-> R(100, 1), paper_start_btc |-> R(1, 2),
      paper_fee_rate |-> R(2, 1), paper_slippage_bps |-> Zero]}

MidSet == {R(900, 1), R(1000, 1), R(1100, 1), NaN}

\* <<best_bid, best_ask>>: a proper book, bid = ask, no bid, and a bid or an
\* ask that is not a number.
PaperBooks ==
    {<<R(900, 1), R(1100, 1)>>, <<R(1000, 1), R(1000, 1)>>, <<Zero, R(1100, 1)>>,
     <<NaN, R(1100, 1)>>, <<R(900, 1), NaN>>}

\* <<quote_order_qty, quantity>> of a decision to buy and of one to sell.
PaperAmounts == {<<R(100, 1), Zero>>, <<Zero, R(1, 2)>>}

PaperActions == {<<"DRY_RUN", BUY>>, <<"DRY_RUN", SELL>>, <<"", BUY>>, <<"SKIP", SELL>>}

InitPaper ==
    /\ settings \in PaperSettings
    /\ ledger = create_paper_ledger(settings, InitialMid)
    /\ hist = <<>>
    /\ ret = None
    /\ RiskIdle
    /\ SigIdle
    /\ CalIdle
    /\ LoopIdle

MarkToMarket(mid) ==
    /\ Len(hist) < MaxMarks
    /\ LET r == mark_to_market(ledger, mid)
       IN  /\ ledger' = r.self
           /\ hist' = IF r.raised THEN hist ELSE Append(hist, r.result[1][1])
           /\ ret' = Some([op |-> "mark_to_market", mid |-> mid,
                           raised |-> r.raised, result |-> r.result])
    /\ UNCHANGED <<settings, riskVars, sigVars, cal, loop>>

ApplyDryRunTrade(action_taken, approved, side, amounts, book) ==
    /\ ret # None
    /\ ret[1].op = "mark_to_market"
    /\ Len(hist) < MaxMarks
    /\ ledger.trade_count < MaxTrades
    /\ LET r == apply_dry_run_trade(ledger, action_taken, approved, side,
                                    amounts[1], amounts[2], book[1], book[2])
       IN  /\ ledger' = r.self
           /\ ret' = Some([op |-> "apply_dry_run_trade", action_taken |-> action_taken,
                           approved |-> approved, side |-> side,
                           quote_order_qty |-> amounts[1], quantity |-> amounts[2],
                           best_bid |-> book[1], best_ask |-> book[2],
                           raised |-> r.raised, result |-> r.result])
    /\ UNCHANGED <<settings, riskVars, sigVars, cal, loop, hist>>

NextPaper ==
    \/ \E mid \in MidSet : MarkToMarket(mid)
    \/ \E a \in PaperActions, approved \in BOOLEAN, side \in {BUY, SELL, HOLD},
          amounts \in PaperAmounts, book \in PaperBooks :
          ApplyDryRunTrade(a, approved, side, amounts, book)

SpecPaper == InitPaper /\ [][NextPaper]_vars

----------------------------------------------------------------------------
(* Harness for the round trip of the paper ledger: 1000 USDT, no BTC, no   *)
(* fee and no slippage, with books around a price of 100.                  *)

InitRoundTrip ==
    /\ settings = [paper_start_usdt |-> R(1000, 1), paper_start_btc |-> Zero,
                   paper_fee_rate |-> Zero, paper_slippage_bps |-> Zero]
    /\ ledger = create_paper_ledger(settings, R(100, 1))
    /\ hist = <<>>
    /\ ret = None
    /\ RiskIdle
    /\ SigIdle
    /\ CalIdle
    /\ LoopIdle

NextRoundTrip ==
    \/ \E mid \in {R(100, 1), R(199, 2)} : MarkToMarket(mid)
    \/ \E a \in PaperActions, approved \in BOOLEAN, side \in {BUY, SELL, HOLD},
          amounts \in {<<R(100, 1), Zero>>, <<Zero, One>>},
          book \in {<<R(99, 1), R(100, 1)>>, <<R(100, 1), R(100, 1)>>} :
          ApplyDryRunTrade(a, approved, side, amounts, book)

SpecRoundTrip == InitRoundTrip /\ [][NextRoundTrip]_vars

----------------------------------------------------------------------------
(* Harness for a ledger at the edge of the float range: its balance of     *)
(* MaxFloat / 1000 BTC is worth MaxFloat at the initial mid of 1000.       *)

InitOverflow ==
    /\ settings = [paper_start_usdt |-> Zero,
                   paper_start_btc |-> RDiv(MaxFloat, InitialMid),
                   paper_fee_rate |-> Zero, paper_slippage_bps |-> Zero]
    /\ ledger = create_paper_ledger(settings, InitialMid)
    /\ hist = <<>>
    /\ ret = None
    /\ RiskIdle
    /\ SigIdle
    /\ CalIdle
    /\ LoopIdle

NextOverflow ==
    \/ \E mid \in MidSet : MarkToMarket(mid)
    \/ \E a \in PaperActions, approved \in BOOLEAN, side \in {BUY, SELL, HOLD},
          amounts \in PaperAmounts, book \in PaperBooks :
          ApplyDryRunTrade(a, approved, side, amounts, book)

SpecOverflow == InitOverflow /\ [][NextOverflow]_vars

----------------------------------------------------------------------------
(* run_live.py: the poll loop of main.  The locals of the loop are the     *)
(* fields of loop; evaluated (what the risk evaluator received at the last *)
(* processed poll), processed (how many polls reached the evaluation) and  *)
(* slept (the last sleep) are ghost fields.  Times are whole seconds.      *)

MaxPolls == 3

\* risk.py lines 95-106: the parameters of evaluate_pending_signal, none of
\* which has a default.
evaluate_parameters ==
    {"pending_signal", "mid", "imbalance", "threshold_used", "position_btc",
     "position_usdt", "filters", "now_ts", "last_trade_ts", "cfg"}

Min(a, b) == IF a <= b THEN a ELSE b

\* market_data.py line 134.
SnapshotMid(sn) ==
    IF RGt(sn.bid, Zero) /\ RGt(sn.ask, Zero)
        THEN RDiv(RAdd(sn.bid, sn.ask), R(2, 1)) ELSE Zero

\* run_live.py line 275.
InvalidTopOfBook(sn) == RLe(sn.bid, Zero) \/ RLe(sn.ask, Zero) \/ RGe(sn.bid, sn.ask)

\* The symbol filters and the risk configuration of the run.
LoopFilters ==
    [min_qty |-> Zero, max_qty |-> Zero, step_size |-> R(1, 1), min_notional |-> Zero]

\* risk.py, risk_config_from_settings.
LoopRiskConfig ==
    [cooldown_seconds |-> 2, max_notional_per_trade_usdt |-> R(4, 1),
     min_notional_per_trade_usdt |-> Zero, max_abs_position_btc |-> R(3, 1),
     enable_position_sizing |-> FALSE, position_sizing_mode |-> "linear_excess"]

\* What get_account_balances can return: (base, quote).
BalanceSet == {<<Zero, R(6, 1)>>, <<R(2, 1), R(2, 1)>>}

\* A crossed book joins the snapshots of the calibrator harness.
LoopSnapshotSet ==
    SnapshotSet \cup {[bid |-> R(3, 1), ask |-> R(1, 1), imbalance |-> R(1, 2)]}

\* What the exchange does with an order and with the balance query that
\* follows it: the order's status or an exception with an HTTP status.
NetSet ==
    {[order |-> "ok", status |-> "FILLED", http |-> 0, balances |-> "ok",
      account |-> <<R(1, 1), R(4, 1)>>],
     [order |-> "ok", status |-> "NEW", http |-> 429, balances |-> "raise",
      account |-> <<Zero, Zero>>],
     [order |-> "raise", status |-> "", http |-> 429, balances |-> "ok",
      account |-> <<Zero, Zero>>],
     [order |-> "raise", status |-> "", http |-> 500, balances |-> "ok",
      account |-> <<Zero, Zero>>]}

\* HTTP status found in the message of a failed poll (0: none).
PollStatusSet == {0, 418, 429, 500}

\* run_live.py lines 193-204.  error_run is a ghost: the number of polls
\* in a row, up to the last one, that had an error.
NewLoop(st, balances) ==
    [pc |-> "loop", polls |-> 0, orders_placed |-> 0, orders_filled |-> 0,
     error_count |-> 0, consecutive_errors |-> 0, pending_signal |-> HOLD,
     pending_prev |-> HOLD, last_trade_ts |-> None,
     backoff_seconds |-> st.backoff_base_seconds, now |-> 0,
     position_btc |-> balances[1], position_usdt |-> balances[2],
     cancel_requested |-> FALSE, exit |-> "", slept |-> 0,
     evaluated |-> None, processed |-> 0, error_run |-> 0,
     status_for_backoff |-> 0]

\* run_live.py lines 211-218.
StartPoll(l, elapsed) ==
    [l EXCEPT !.polls = @ + 1, !.now = @ + elapsed,
              !.pending_prev = l.pending_signal, !.slept = 0,
              !.status_for_backoff = 0]

\* run_live.py lines 227-232: the balances are read again at poll 1 and at
\* every resync_every_n_polls-th poll.
Resync(l, balances, st) ==
    IF l.polls = 1 \/ (l.polls % st.resync_every_n_polls) = 0
        THEN [l EXCEPT !.position_btc = balances[1], !.position_usdt = balances[2]]
        ELSE l

\* run_live.py lines 492-502: the loop is left, by break or by an
\* exception, and the finally block runs.
Shutdown(l, reason, st) ==
    [l EXCEPT !.pc = "shutdown", !.exit = reason, !.cancel_requested = ~st.dry_run]

\* Mutant: the backoff doubles without a cap.
SleepOrStop_uncapped(l, status, st) ==
    IF l.consecutive_errors > st.max_consecutive_errors
        THEN [l EXCEPT !.pc = "shutdown", !.exit = "max_consecutive_errors",
                       !.cancel_requested = ~st.dry_run]
    ELSE IF status \in {418, 429}
        THEN [l EXCEPT !.slept = Min(l.backoff_seconds, st.backoff_cap_seconds),
                       !.backoff_seconds = @ * 2]
    ELSE [l EXCEPT !.slept = st.poll_interval_seconds]

\* Mutant: the loop stops when the count reaches the maximum.
SleepOrStop_at_max(l, status, st) ==
    IF l.consecutive_errors >= st.max_consecutive_errors
        THEN [l EXCEPT !.pc = "shutdown", !.exit = "max_consecutive_errors",
                       !.cancel_requested = ~st.dry_run]
    ELSE IF status \in {418, 429}
        THEN [l EXCEPT !.slept = Min(l.backoff_seconds, st.backoff_cap_seconds),
                       !.backoff_seconds = Min(@ * 2, st.backoff_cap_seconds)]
    ELSE [l EXCEPT !.slept = st.poll_interval_seconds]

\* run_live.py lines 246-255 and 480-490.
SleepOrStop(l, status, st) ==
    IF l.consecutive_errors > st.max_consecutive_errors
        THEN Shutdown(l, "max_consecutive_errors", st)
    ELSE IF status \in {418, 429}
        THEN [l EXCEPT !.slept = Min(l.backoff_seconds, st.backoff_cap_seconds),
                       !.backoff_seconds = Min(@ * 2, st.backoff_cap_seconds)]
    ELSE [l EXCEPT !.slept = st.poll_interval_seconds]

\* Mutant: a failed poll counts as a trade for the cooldown.
PollFailed_stamps(l, status, st) ==
    SleepOrStop([l EXCEPT !.error_count = @ + 1, !.consecutive_errors = @ + 1,
                          !.error_run = @ + 1, !.status_for_backoff = status,
                          !.last_trade_ts = Some(l.now)],
                status, st)

\* run_live.py lines 233-256.
PollFailed(l, status, st) ==
    SleepOrStop([l EXCEPT !.error_count = @ + 1, !.consecutive_errors = @ + 1,
                          !.error_run = @ + 1, !.status_for_backoff = status],
                status, st)

\* run_live.py lines 334-490: the rest of a processed poll, once the risk
\* evaluator has returned the decision dec.
FinishPoll(l, dec, result, signal_t, net, st) ==
    LET raised == PostsOrder(dec, st) /\ net.order = "raise"
        traded == ~raised /\ dec.approved
                     /\ (result.placed \/ result.action_taken[1] = "DRY_RUN")
        refresh == ~st.dry_run /\ ~raised /\ result.order_id # ""
        refresh_raised == refresh /\ net.balances = "raise"
        errors == (IF raised THEN 1 ELSE 0) + (IF refresh_raised THEN 1 ELSE 0)
        status == IF errors > 0 THEN net.http ELSE 0
    IN  SleepOrStop(
            [l EXCEPT
                !.orders_placed = IF ~raised /\ result.placed THEN @ + 1 ELSE @,
                !.orders_filled = IF ~raised /\ result.filled THEN @ + 1 ELSE @,
                !.last_trade_ts = IF traded THEN Some(l.now) ELSE @,
                !.pending_signal = signal_t,
                !.position_btc = IF refresh /\ ~refresh_raised THEN net.account[1] ELSE @,
                !.position_usdt = IF refresh /\ ~refresh_raised THEN net.account[2] ELSE @,
                !.error_count = @ + errors,
                !.consecutive_errors = IF errors > 0 THEN @ + errors ELSE 0,
                !.error_run = IF errors > 0 THEN @ + 1 ELSE 0,
                !.status_for_backoff = status,
                !.backoff_seconds = IF errors > 0 THEN @ ELSE st.backoff_base_seconds],
            status, st)

\* run_live.py lines 323-332: the keyword arguments of the call.
CallKeywords(l, sn) ==
    [pending_signal |-> l.pending_prev, mid |-> SnapshotMid(sn),
     position_btc |-> l.position_btc, position_usdt |-> l.position_usdt,
     filters |-> LoopFilters, now_ts |-> l.now,
     last_trade_ts |-> l.last_trade_ts, cfg |-> LoopRiskConfig]

\* The parameters without a default that the call leaves unbound: Python
\* raises TypeError when there is one.
MissingArguments(kw) == evaluate_parameters \ DOMAIN kw

BindCall(kw) ==
    evaluate_pending_signal(kw.pending_signal, kw.mid, kw.imbalance,
                            kw.threshold_used, kw.position_btc, kw.position_usdt,
                            kw.filters, kw.now_ts, kw.last_trade_ts, kw.cfg)

Executed(l, dec, signal_t, net, st) ==
    FinishPoll(l, dec, execute_trade_decision(dec, st, net), signal_t, net, st)

\* run_live.py lines 323-490: the evaluator is called with the keywords kw.
\* A TypeError is caught by no handler of main: the finally block runs and
\* the exception leaves main.
EvaluateAndFinish(l, kw, signal_t, net, st) ==
    IF MissingArguments(kw) # {}
        THEN Shutdown([l EXCEPT !.processed = @ + 1], "TypeError", st)
        ELSE Executed([l EXCEPT !.processed = @ + 1,
                                !.evaluated = Some(kw.pending_signal)],
                      BindCall(kw), signal_t, net, st)

\* run_live.py lines 293-303.
CalibratorUpdated(c, sn, st) == IF c = NoCalibrator THEN c ELSE update(c, sn, st)

ThresholdUsed(c, st) ==
    IF c = NoCalibrator THEN st.threshold ELSE current_threshold_value(c, st.threshold)

CalibratorPolled(c, st) ==
    IF c = NoCalibrator THEN c ELSE current_threshold(c, st.threshold)

LoopBase ==
    [confirmation_m |-> 2, confirmation_k |-> 2,
     calibration_mode |-> MODE_WARMUP_THEN_TRADE,
     calibration_w_polls |-> WindowSize,
     calibration_horizon_polls |-> HorizonPolls,
     calibration_h_polls |-> 2, calibration_min_trades |-> 1,
     calibration_ema_lambda |-> Zero,
     calibration_turnover_penalty_alpha |-> Zero,
     thresh_grid_min |-> R(1, 4), thresh_grid_max |-> R(3, 4),
     thresh_grid_step |-> R(1, 2),
     resync_every_n_polls |-> 2, poll_interval_seconds |-> 1,
     backoff_base_seconds |-> 1, backoff_cap_seconds |-> 3]

\* settings.py lines 67-160: max_polls >= 0 (0: no limit),
\* max_consecutive_errors >= 1, any threshold, backoff_base_seconds below or
\* above backoff_cap_seconds.
LoopSettings ==
    {[k \in DOMAIN LoopBase \cup DOMAIN v |->
         IF k \in DOMAIN v THEN v[k] ELSE LoopBase[k]] :
     v \in [max_polls : {0, 2}, max_consecutive_errors : {1, 2},
            dry_run : BOOLEAN, enable_threshold_calibration : BOOLEAN,
            threshold : {R(-1, 2), R(1, 2)}, backoff_base_seconds : {1, 4}]}

InitLoop ==
    /\ settings \in LoopSettings
    /\ cal = IF settings.enable_threshold_calibration
                 THEN NewCalibrator(settings) ELSE NoCalibrator
    /\ loop \in {NewLoop(settings, b) : b \in BalanceSet}
    /\ SigIdle
    /\ RiskIdle
    /\ AuxIdle

\* Mutant: max_polls is not looked at.
CanPoll_unlimited ==
    /\ loop.pc = "loop"
    /\ loop.polls < MaxPolls

\* run_live.py lines 208-210: the loop goes on to another poll.
CanPoll ==
    /\ loop.pc = "loop"
    /\ ~(settings.max_polls > 0 /\ loop.polls >= settings.max_polls)
    /\ loop.polls < MaxPolls

\* run_live.py lines 209-210: max_polls reached.
LoopExit ==
    /\ loop.pc = "loop"
    /\ settings.max_polls > 0 /\ loop.polls >= settings.max_polls
    /\ loop' = Shutdown(loop, "max_polls", settings)
    /\ UNCHANGED <<settings, riskVars, sigVars, cal, auxVars>>

\* run_live.py lines 221-256: the snapshot or the balances could not be
\* fetched.
PollError(elapsed, status) ==
    /\ CanPoll
    /\ loop' = PollFailed(StartPoll(loop, elapsed), status, settings)
    /\ UNCHANGED <<settings, riskVars, sigVars, cal, auxVars>>

\* run_live.py lines 275-291: the top of book is invalid.
PollSkip(sn, elapsed, balances) ==
    /\ CanPoll
    /\ InvalidTopOfBook(sn)
    /\ loop' = [Resync(StartPoll(loop, elapsed), balances, settings)
                   EXCEPT !.slept = settings.poll_interval_seconds,
                          !.error_run = 0]
    /\ UNCHANGED <<settings, riskVars, sigVars, cal, auxVars>>

\* run_live.py lines 293-322: the calibrator, the threshold and the signals
\* of a processed poll, then the evaluation.
Processed(l, sn, c, net, st) ==
    LET threshold_used == ThresholdUsed(c, st)
        raw_signal_t == signal_from_imbalance(sn.imbalance, threshold_used)
        res == _confirmed_signal(raw_signal_t, signal_history, st)
    IN  /\ cal' = CalibratorPolled(c, st)
        /\ signal_history' = res.signal_history
        /\ sig' = [imbalance |-> sn.imbalance, threshold |-> threshold_used,
                   raw |-> raw_signal_t, confirmed |-> res.confirmed]
        /\ loop' = EvaluateAndFinish(l, CallKeywords(l, sn), res.confirmed, net, st)

\* run_live.py lines 221-490: a poll with a valid top of book.
PollProcess(sn, elapsed, balances, net) ==
    /\ CanPoll
    /\ ~InvalidTopOfBook(sn)
    /\ Processed(Resync(StartPoll(loop, elapsed), balances, settings), sn,
                 CalibratorUpdated(cal, sn, settings), net, settings)
    /\ UNCHANGED <<settings, riskVars, fed, auxVars>>

NextLoop ==
    \/ LoopExit
    \/ \E elapsed \in 1..2, status \in PollStatusSet : PollError(elapsed, status)
    \/ \E sn \in LoopSnapshotSet, elapsed \in 1..2, b \in BalanceSet :
           PollSkip(sn, elapsed, b)
    \/ \E sn \in LoopSnapshotSet, elapsed \in 1..2, b \in BalanceSet, net \in NetSet :
           PollProcess(sn, elapsed, b, net)

SpecLoop == InitLoop /\ [][NextLoop]_vars

\* Every request has a timeout and every sleep is finite, so an iteration
\* of the while loop that can be taken is taken.
SpecLoopLive == SpecLoop /\ WF_vars(NextLoop)

----------------------------------------------------------------------------
(* Claims about the signal function and the confirmation filter            *)
(* (specification SpecSignal).                                             *)

Fed == fed # <<>>

\* x > y and x < -y on the numerators and denominators themselves; a NaN
\* imbalance compares False with everything.
Above(x, y) == x[2] > 0 /\ x[1] * y[2] > y[1] * x[2]

BelowNeg(x, y) == x[2] > 0 /\ x[1] * y[2] < -y[1] * x[2]

\* C6: for every imbalance and every threshold >= 0 the raw signal is BUY
\* exactly when imbalance > threshold, SELL exactly when imbalance <
\* -threshold and HOLD otherwise; imbalance = threshold and imbalance =
\* -threshold give HOLD.
C6_Signal ==
    (Fed /\ sig.threshold[1] >= 0) =>
        /\ sig.raw = BUY <=> Above(sig.imbalance, sig.threshold)
        /\ sig.raw = SELL <=> BelowNeg(sig.imbalance, sig.threshold)
        /\ sig.raw = HOLD <=> (~Above(sig.imbalance, sig.threshold)
                                /\ ~BelowNeg(sig.imbalance, sig.threshold))
        /\ (sig.imbalance = sig.threshold \/ sig.imbalance = RNeg(sig.threshold))
               => sig.raw = HOLD

\* The boundary: a positive imbalance equal to the threshold gives HOLD.
C6_Witness ==
    /\ Fed
    /\ sig.threshold[1] > 0
    /\ sig.imbalance = sig.threshold
    /\ sig.raw = HOLD

\* The m most recent entries of a sequence.
LastM(seq, m) ==
    IF Len(seq) <= m THEN seq ELSE SubSeq(seq, Len(seq) - m + 1, Len(seq))

\* C7: the confirmed output of each call is the raw signal when it is BUY
\* or SELL and occurs at least K times among the M most recent raw signals,
\* the current one included, and HOLD otherwise; a raw HOLD is pushed into
\* the window and never confirmed.  With M = 3 and K = 2, BUY, HOLD, BUY
\* confirms BUY on the third call and BUY, SELL, HOLD never confirms.
C7_Confirmation ==
    Fed =>
        LET raw == fed[Len(fed)]
            window == LastM(fed, settings.confirmation_m)
        IN  /\ sig.raw = raw
            /\ signal_history = window
            /\ sig.confirmed =
                   IF raw \in {BUY, SELL} /\ Count(window, raw) >= settings.confirmation_k
                       THEN raw ELSE HOLD
            /\ raw = HOLD => sig.confirmed = HOLD
            /\ (settings.confirmation_m = 3 /\ settings.confirmation_k = 2) =>
                   /\ fed = <<BUY, HOLD, BUY>> => sig.confirmed = BUY
                   /\ fed \in {<<BUY>>, <<BUY, SELL>>, <<BUY, SELL, HOLD>>, <<BUY, HOLD>>}
                          => sig.confirmed = HOLD

\* M = 3, K = 2 and BUY, HOLD, BUY fed: the third call confirms BUY.
C7_Witness ==
    /\ settings.confirmation_m = 3
    /\ settings.confirmation_k = 2
    /\ fed = <<BUY, HOLD, BUY>>
    /\ sig.confirmed = BUY

----------------------------------------------------------------------------
(* Claims about the risk evaluator (specification SpecRisk).               *)

Evaluated == rpc = "done"

\* The target notional of the call, and the five common rejection checks
\* of risk.py lines 112-157 stated on the call's arguments.
Target(c) == compute_notional_target_usdt(c.imbalance, c.threshold_used, c.cfg)

FailsHold(c) == c.pending_signal \notin {BUY, SELL}

FailsMid(c) == c.mid[1] <= 0

FailsImbalance(c) == c.cfg.enable_position_sizing /\ ~IsFinite(c.imbalance)

FailsCooldown(c) ==
    /\ c.last_trade_ts # None
    /\ c.now_ts - c.last_trade_ts[1] < c.cfg.cooldown_seconds

FailsMinNotional(c) ==
    /\ c.cfg.enable_position_sizing
    /\ IsFinite(c.imbalance)
    /\ RLt(Target(c), c.cfg.min_notional_per_trade_usdt)

CheckOrder == <<"hold", "bad_mid", "invalid_imbalance", "cooldown_active", "notional_below_min">>

CheckFails(c, i) ==
    CASE i = 1 -> FailsHold(c)
      [] i = 2 -> FailsMid(c)
      [] i = 3 -> FailsImbalance(c)
      [] i = 4 -> FailsCooldown(c)
      [] i = 5 -> FailsMinNotional(c)

FailingChecks(c) == {i \in 1..5 : CheckFails(c, i)}

FirstFailing(c) == CHOOSE i \in FailingChecks(c) : \A j \in FailingChecks(c) : i <= j

\* C3: the common rejection checks are applied in the order hold, bad_mid,
\* invalid_imbalance, cooldown_active, notional_below_min; the decision
\* carries the reason of the first check that fails, whatever the later
\* checks would say, and carries none of these reasons when none fails.
C3_CheckOrder ==
    Evaluated =>
        IF FailingChecks(call) # {}
            THEN /\ ~decision.approved
                 /\ decision.reject_reason = CheckOrder[FirstFailing(call)]
            ELSE decision.reject_reason \notin {CheckOrder[i] : i \in 1..5}

\* A BUY with mid <= 0 evaluated while the cooldown is active and the sized
\* notional is below the minimum: three checks fail, bad_mid is reported.
C3_Witness ==
    /\ Evaluated
    /\ call.pending_signal = BUY
    /\ FailingChecks(call) = {2, 4, 5}
    /\ decision.reject_reason = "bad_mid"

IsBuySell(c) == c.pending_signal \in {BUY, SELL}

EstQty(c) == RDiv(Target(c), c.mid)

ApprovedBuy == Evaluated /\ decision.approved /\ decision.side = BUY

\* C4 as stated: the estimated quantity of an approved BUY is at most the
\* filter max qty, whatever that is.
C4_Original ==
    ApprovedBuy =>
        /\ decision.quote_order_qty = Target(call)
        /\ RGe(Target(call), call.filters.min_notional)
        /\ RLe(Target(call), call.position_usdt)
        /\ RGe(EstQty(call), call.filters.min_qty)
        /\ RLe(EstQty(call), call.filters.max_qty)
        /\ RLe(RAdd(call.position_btc, EstQty(call)), call.cfg.max_abs_position_btc)

\* C4, amended: every approved BUY has quote_order_qty equal to the target
\* notional; the target is at least the exchange minimum notional and at
\* most the quote balance; the estimated quantity target/mid is at least the
\* filter min qty and, when the filter max qty is positive, at most the
\* filter max qty; position_btc plus the estimated quantity does not exceed
\* max_abs_position_btc.
C4_ApprovedBuy ==
    ApprovedBuy =>
        /\ decision.quote_order_qty = Target(call)
        /\ RGe(Target(call), call.filters.min_notional)
        /\ RLe(Target(call), call.position_usdt)
        /\ RGe(EstQty(call), call.filters.min_qty)
        /\ RGt(call.filters.max_qty, Zero) => RLe(EstQty(call), call.filters.max_qty)
        /\ RLe(RAdd(call.position_btc, EstQty(call)), call.cfg.max_abs_position_btc)

\* An approved, sized BUY under a positive max qty and a positive min notional.
C4_Witness ==
    /\ ApprovedBuy
    /\ call.cfg.enable_position_sizing
    /\ RGt(call.filters.max_qty, Zero)
    /\ RGt(call.position_btc, Zero)

ApprovedSell == Evaluated /\ decision.approved /\ decision.side = SELL

IsMultiple(q, step) == RGt(step, Zero) /\ RDiv(q, step)[2] = 1

\* q is x rounded down to a whole multiple of step.
IsRoundedDown(q, x, step) ==
    /\ IsMultiple(q, step)
    /\ RLe(q, x)
    /\ RLt(x, RAdd(q, step))

Available(c) == RMax(c.position_btc, Zero)

RawSellQty(c) == RMin(Available(c), EstQty(c))

\* C5 as stated: every approved SELL quantity is min(available, target/mid)
\* rounded down to a whole multiple of the step size.
C5_Original ==
    ApprovedSell =>
        IsRoundedDown(decision.quantity, RawSellQty(call), call.filters.step_size)

\* C5, amended: every approved SELL quantity never exceeds the available
\* base balance nor target_notional/mid.  With a positive step size it is a
\* whole multiple of the step: min(available, target/mid) rounded down, or,
\* when that exceeds a positive filter max qty, the filter max qty rounded
\* down.  With a step size of zero nothing is rounded: the quantity is
\* min(available, target/mid), or the filter max qty when that is exceeded.
\* step_size = 0.001 with 0.0057 available and a larger notional cap gives
\* 0.005.
C5_ApprovedSell ==
    ApprovedSell =>
        LET q == decision.quantity
            raw == RawSellQty(call)
            step == call.filters.step_size
            maxq == call.filters.max_qty
        IN  /\ RLe(q, Available(call))
            /\ RLe(q, EstQty(call))
            /\ RGt(step, Zero) =>
                   \/ IsRoundedDown(q, raw, step)
                   \/ /\ RGt(maxq, Zero)
                      /\ RLt(maxq, raw)
                      /\ IsRoundedDown(q, maxq, step)
            /\ ~RGt(step, Zero) =>
                   \/ q = raw
                   \/ RGt(maxq, Zero) /\ RLt(maxq, raw) /\ q = maxq
            /\ (call.position_btc = R(57, 10000) /\ step = R(1, 1000)
                    /\ RGe(EstQty(call), call.position_btc))
                   => q = R(5, 1000)

\* The spec's example: 0.0057 available, step 0.001, approved quantity 0.005.
C5_Witness ==
    /\ ApprovedSell
    /\ call.position_btc = R(57, 10000)
    /\ call.filters.step_size = R(1, 1000)
    /\ decision.quantity = R(5, 1000)

----------------------------------------------------------------------------
(* Claims about the calibrator (SpecCalibrator).                           *)

WindowFull(c) == Len(c.labeled_obs) >= settings.calibration_w_polls

WarmupThenTrade == cal.mode = MODE_WARMUP_THEN_TRADE

\* C8: in both modes, after any sequence of update and current_threshold
\* calls, a labeled window of fewer than W observations means the state is
\* WARMUP and there is no live threshold.
C8_Warmup ==
    ~WindowFull(cal) => (cal.state = WARMUP /\ cal.theta_live = None)

\* A window that is partly filled, after update and current_threshold calls.
C8_Witness ==
    /\ cal.op = "current_threshold"
    /\ cal.labeled_obs # <<>>
    /\ ~WindowFull(cal)
    /\ cal.state = WARMUP

\* C9: in warmup_then_trade mode the state enters CALIBRATING only at an
\* update that finds no live threshold, a full window and a valid
\* candidate, and that happens at most once; after every later update the
\* state is TRADING; theta_live never changes once it is set.
C9_WarmupThenTrade ==
    [][WarmupThenTrade =>
        /\ cal.theta_live # None => cal'.theta_live = cal.theta_live
        /\ (cal.theta_live # None /\ cal'.op = "update") => cal'.state = TRADING
        /\ (cal'.state = CALIBRATING /\ cal'.op = "update") =>
               /\ cal.theta_live = None
               /\ WindowFull(cal')
               /\ cal'.last_report # None
               /\ cal'.last_report[1].reason = "ok"
               /\ cal'.theta_live = cal'.last_report[1].theta_hat
        /\ cal'.successes <= 1]_vars

\* An update after the calibration has left the state TRADING.
C9_Witness ==
    /\ WarmupThenTrade
    /\ cal.op = "update"
    /\ cal.state = TRADING
    /\ cal.theta_live # None
    /\ cal.successes = 1

\* C10 as stated: in warmup_then_trade mode the grid search is run only at
\* the update where the window first reaches W observations.
C10_Original ==
    [][(WarmupThenTrade /\ cal'.ran) => ~WindowFull(cal)]_vars

\* C10, amended: in warmup_then_trade mode an update runs the grid search
\* exactly when the snapshot's mid is usable, there is no live threshold
\* and the window holds W observations once the snapshot is taken in: the
\* search is repeated at each such update until it finds a candidate.  It
\* finds one at most once and is never run after that.
C10_GridSearch ==
    [][WarmupThenTrade =>
        /\ cal'.op = "update" =>
               (cal'.ran <=> /\ cal'.usable
                             /\ cal.theta_live = None
                             /\ WindowFull(cal'))
        /\ cal.theta_live # None => ~cal'.ran
        /\ cal'.op # "update" => ~cal'.ran
        /\ cal'.successes <= 1]_vars

\* A grid search that found no candidate, so that it is run again.
C10_Witness ==
    /\ WarmupThenTrade
    /\ cal.ran
    /\ WindowFull(cal)
    /\ cal.theta_live = None
    /\ cal.last_report[1].reason = "no_valid_candidate"

----------------------------------------------------------------------------
(* Claims about the poll loop (SpecLoop).                                  *)

\* C1: at every processed poll the risk evaluator is given the confirmed
\* signal of the previous processed poll (HOLD at the first poll), which
\* the loop holds in pending_prev: once a poll has been processed, the
\* evaluator has received pending_prev.
C1_Original ==
    loop.processed > 0 => loop.evaluated = Some(loop.pending_prev)

----------------------------------------------------------------------------
(* Further claims about the calibrator (SpecCalibrator).                   *)

Rolling == cal.mode = MODE_ROLLING_WALK_FORWARD

HorizonReached(c) == c.trade_polls_since_calibration >= settings.calibration_h_polls

\* C11 as stated: in both modes, when the state is CALIBRATING after one
\* update, it is TRADING after the next update.
C11_Original ==
    [][(cal.state = CALIBRATING /\ cal'.op = "update") => cal'.state = TRADING]_vars

\* C11, amended: when the state is CALIBRATING after one update, the state
\* after the next update is TRADING, unless (rolling mode only) the poll
\* counter has reached the trade horizon and that update recalibrates with
\* success, which leaves the state CALIBRATING again.
C11_Calibrating ==
    [][(cal.state = CALIBRATING /\ cal'.op = "update") =>
        \/ cal'.state = TRADING
        \/ /\ Rolling
           /\ HorizonReached(cal)
           /\ cal'.state = CALIBRATING
           /\ cal'.ran
           /\ cal'.successes = cal.successes + 1]_vars

\* An update has advanced a rolling calibrator from CALIBRATING to TRADING.
C11_Witness ==
    /\ Rolling
    /\ cal.op = "update"
    /\ cal.state = TRADING
    /\ cal.successes = 1
    /\ cal.trade_polls_since_calibration = 0

\* An update with a usable mid attempts a recalibration exactly when the
\* counter has reached the trade horizon.
AttemptAtHorizon ==
    (cal'.op = "update" /\ cal'.usable) => (cal'.ran <=> HorizonReached(cal))

\* C12 as stated: in rolling mode, once a live threshold exists, an update
\* attempts a recalibration exactly when the polls counted since the last
\* successful calibration have reached the trade horizon: the count is
\* taken back to 0 by a successful calibration only.
C12_Original ==
    [][(Rolling /\ cal.theta_live # None) =>
        /\ AttemptAtHorizon
        /\ (cal'.op = "update" /\ cal'.successes = cal.successes) =>
               cal'.trade_polls_since_calibration = cal.trade_polls_since_calibration]_vars

\* C12, amended: in rolling mode, once a live threshold exists, an update
\* with a usable mid attempts a recalibration exactly when the polls counted
\* since the last attempt, successful or not, have reached the trade
\* horizon; an update with an unusable mid attempts none.  Every attempt
\* takes the count back to 0, no other update changes it, and every
\* current_threshold call adds one to it.
C12_Recalibration ==
    [][(Rolling /\ cal.theta_live # None) =>
        /\ AttemptAtHorizon
        /\ (cal'.op = "update" /\ ~cal'.usable) => ~cal'.ran
        /\ cal'.op = "update" =>
               cal'.trade_polls_since_calibration =
                   IF cal'.ran THEN 0 ELSE cal.trade_polls_since_calibration
        /\ cal'.op = "current_threshold" =>
               /\ ~cal'.ran
               /\ cal'.trade_polls_since_calibration =
                      cal.trade_polls_since_calibration + 1]_vars

\* A recalibration that found no candidate: the live threshold stays and
\* the count starts again.
C12_Witness ==
    /\ Rolling
    /\ cal.ran
    /\ cal.theta_live # None
    /\ cal.last_report[1].reason = "no_valid_candidate"
    /\ cal.trade_polls_since_calibration = 0

----------------------------------------------------------------------------
(* Claims about the observation queues (SpecWindow).                       *)

\* The last n entries of seq.
LastN(seq, n) ==
    IF Len(seq) <= n THEN seq ELSE SubSeq(seq, Len(seq) - n + 1, Len(seq))

\* The labels that the accepted updates acc determine for horizon h: the
\* update t <= Len(acc) - h with a finite imbalance is paired with
\* mid[t+h]/mid[t] - 1, in the order of t.
RECURSIVE LabelsFrom(_, _, _)
LabelsFrom(acc, h, t) ==
    IF t + h > Len(acc) THEN <<>>
    ELSE (IF IsFinite(acc[t][1])
              THEN <<[imbalance |-> acc[t][1],
                      forward_return |-> RSub(RDiv(acc[t + h][2], acc[t][2]), One)]>>
              ELSE <<>>)
         \o LabelsFrom(acc, h, t + 1)

\* C13: the labeled window holds, in order, the last W labels
\* (imbalance[t], mid[t+H]/mid[t] - 1) of the accepted updates t whose H-th
\* following accepted update has happened, and the pending queue holds the
\* last H accepted updates, whose outcome is not known yet: no label uses a
\* mid that has not been observed.
C13_Labels ==
    /\ cal.labeled_obs =
           LastN(LabelsFrom(hist, settings.calibration_horizon_polls, 1),
                 settings.calibration_w_polls)
    /\ cal.pending_obs = LastN(hist, settings.calibration_horizon_polls)

\* A full window whose newest label has a return that is not 0, while an
\* accepted update with a non-finite imbalance was left without a label.
C13_Witness ==
    /\ settings.calibration_horizon_polls > 1
    /\ Len(cal.labeled_obs) = settings.calibration_w_polls
    /\ cal.labeled_obs[Len(cal.labeled_obs)].forward_return # Zero
    /\ \E t \in 1..(Len(hist) - settings.calibration_horizon_polls) : ~IsFinite(hist[t][1])

----------------------------------------------------------------------------
(* Claims about one calibration (SpecAttempt).                             *)

Calibrated == ret # None /\ ret[1].op = "_calibrate_threshold"

Attempted == ret # None /\ ret[1].op = "_attempt_calibration"

FullWindow == Len(cal.labeled_obs) >= settings.calibration_w_polls

\* The number of observations of the window that theta selects.
Selected(theta) ==
    Cardinality({i \in 1..Len(cal.labeled_obs) :
                    \/ RGt(cal.labeled_obs[i].imbalance, theta)
                    \/ RLt(cal.labeled_obs[i].imbalance, RNeg(theta))})

Grid == {_threshold_grid(settings)[i] : i \in 1..Len(_threshold_grid(settings))}

\* The thetas of the grid that select at least min_trades observations.
ValidThetas == {theta \in Grid : Selected(theta) >= settings.calibration_min_trades}

ScoreOf(theta) == Candidate(cal.labeled_obs, theta, settings)

\* The report names the valid theta with the highest adjusted score, the
\* lowest such theta.
BestReported(report) ==
    /\ report.reason = "ok"
    /\ report.theta_hat # None
    /\ report.theta_hat[1] \in ValidThetas
    /\ report.n = Selected(report.theta_hat[1])
    /\ \A theta \in ValidThetas :
          /\ ~AdjGt(ScoreOf(theta), report)
          /\ RLt(theta, report.theta_hat[1]) => AdjGt(report, ScoreOf(theta))

NoneReported(report) ==
    report.theta_hat = None /\ report.reason = "no_valid_candidate"

\* C14 as stated: on a full window the report is the best valid theta, and
\* "no_valid_candidate" whenever no theta reaches min_trades.
C14_Original ==
    (Calibrated /\ FullWindow) =>
        IF ValidThetas = {} THEN NoneReported(ret[1].report)
        ELSE BestReported(ret[1].report)

\* C14 (amended): on a full window and a grid that is not empty, the
\* report names the theta with the highest adjusted score among the thetas
\* that select at least min_trades observations (imbalance > theta or <
\* -theta), the lowest theta among equals, and reports no threshold with
\* "no_valid_candidate" when no theta selects min_trades observations; on
\* an empty grid it reports no threshold with "empty_grid".
C14_GridSearch ==
    (Calibrated /\ FullWindow) =>
        IF Grid = {} THEN ret[1].report.theta_hat = None /\ ret[1].report.reason = "empty_grid"
        ELSE IF ValidThetas = {} THEN NoneReported(ret[1].report)
        ELSE BestReported(ret[1].report)

\* Two valid thetas share the highest adjusted score, the lower one is
\* reported, and a third theta was discarded for too few observations.
C14_Witness ==
    /\ Calibrated
    /\ ValidThetas # Grid
    /\ \E theta \in ValidThetas :
          /\ RGt(theta, ret[1].report.theta_hat[1])
          /\ ~AdjGt(ret[1].report, ScoreOf(theta))
    /\ IsFinite(ret[1].report.score_sq)

AttemptStep == ret' # ret /\ ret'[1].op = "_attempt_calibration"

\* lambda * theta_hat + (1 - lambda) * previous theta_live
Smoothed(theta_hat, previous) ==
    RAdd(RMul(settings.calibration_ema_lambda, theta_hat),
         RMul(RSub(One, settings.calibration_ema_lambda), previous))

\* C16: an attempt whose report names theta_hat stores it, sets theta_live
\* to the smoothed value when ema_lambda > 0 and a live threshold existed
\* and to theta_hat otherwise, never below 0, resets the poll counter to 0
\* and enters CALIBRATING.
C16_Success ==
    [][(AttemptStep /\ ret'[1].report.theta_hat # None) =>
          LET theta_hat == ret'[1].report.theta_hat[1]
              target == IF RGt(settings.calibration_ema_lambda, Zero) /\ cal.theta_live # None
                            THEN Smoothed(theta_hat, cal.theta_live[1])
                            ELSE theta_hat
          IN  /\ cal'.theta_hat = Some(theta_hat)
              /\ cal'.theta_live = Some(IF RLt(target, Zero) THEN Zero ELSE target)
              /\ cal'.trade_polls_since_calibration = 0
              /\ cal'.state = CALIBRATING]_vars

\* A recalibration whose smoothed threshold lies strictly between the
\* previous live threshold and the new theta_hat.
C16_Witness ==
    /\ Attempted
    /\ cal.state = CALIBRATING
    /\ cal.successes = 2
    /\ cal.theta_live = Some(R(3, 8))
    /\ cal.theta_hat = Some(R(1, 4))

\* C17: an attempt whose report names no theta_hat leaves theta_live and
\* theta_hat as they were; without a live threshold the state becomes
\* WARMUP, with one it becomes TRADING and current_threshold still returns
\* that threshold.
C17_Failure ==
    [][(AttemptStep /\ ret'[1].report.theta_hat = None) =>
          /\ cal'.theta_live = cal.theta_live
          /\ cal'.theta_hat = cal.theta_hat
          /\ IF cal.theta_live = None
                 THEN cal'.state = WARMUP
                 ELSE /\ cal'.state = TRADING
                      /\ current_threshold_value(cal', settings.threshold) = cal.theta_live[1]]_vars

\* A failed recalibration of a calibrator that trades on a live threshold.
C17_Witness ==
    /\ Attempted
    /\ ret[1].report.reason = "no_valid_candidate"
    /\ cal.theta_live = Some(R(1, 2))
    /\ cal.state = TRADING

----------------------------------------------------------------------------
(* Claims about current_threshold (SpecThreshold).                         *)

\* The fields of the calibrator object other than the poll counter.
CalibratorFields ==
    {"mode", "state", "last_report", "labeled_obs", "pending_obs", "theta_hat",
     "theta_live"}

CountsPoll(c) ==
    /\ c.mode = MODE_ROLLING_WALK_FORWARD
    /\ c.theta_live # None
    /\ c.state \in {TRADING, CALIBRATING}

\* C18: current_threshold(default) returns theta_live when it exists and
\* max(default, 0) otherwise; it leaves every field of the calibrator as it
\* was, except that the poll counter grows by exactly one when the mode is
\* rolling_walk_forward, a live threshold exists and the state is TRADING
\* or CALIBRATING (so never in warmup_then_trade mode or in WARMUP).
C18_CurrentThreshold ==
    [][cal'.op = "current_threshold" =>
          /\ ret'[1].value =
                IF cal.theta_live # None THEN cal.theta_live[1]
                ELSE IF RGt(ret'[1].default_threshold, Zero)
                         THEN ret'[1].default_threshold ELSE Zero
          /\ \A f \in CalibratorFields : cal'[f] = cal[f]
          /\ cal'.trade_polls_since_calibration =
                cal.trade_polls_since_calibration + (IF CountsPoll(cal) THEN 1 ELSE 0)]_vars

\* A call with a negative default right after a recalibration returned the
\* live threshold and counted the first poll.
C18_Witness ==
    /\ Rolling
    /\ cal.op = "current_threshold"
    /\ cal.state = CALIBRATING
    /\ cal.successes = 2
    /\ cal.trade_polls_since_calibration = 1
    /\ RLt(ret[1].default_threshold, Zero)
    /\ ret[1].value = cal.theta_live[1]

----------------------------------------------------------------------------
(* Claims about the paper ledger (SpecPaper).                              *)

Marked == ret # None /\ ret[1].op = "mark_to_market" /\ ~ret[1].raised

\* The largest element of a set of finite rationals.
Largest(S) == CHOOSE x \in S : \A y \in S : RGe(x, y)

\* The peak after the first i marks: the largest of the peak the ledger
\* was created with and the equities marked so far.
RunningPeak(i) == Largest({ledger.initial_equity_usdt} \cup {hist[j] : j \in 1..i})

C19_State ==
    /\ ledger.equity_peak_usdt = RunningPeak(Len(hist))
    /\ ledger.max_drawdown_usdt =
          Largest({Zero} \cup {RSub(RunningPeak(i), hist[i]) : i \in 1..Len(hist)})
    /\ Marked =>
          /\ ret[1].result[1][1] = RAdd(ledger.paper_usdt, RMul(ledger.paper_btc, ret[1].mid))
          /\ ret[1].result[1][2] = RSub(ret[1].result[1][1], ledger.initial_equity_usdt)
          /\ hist[Len(hist)] = ret[1].result[1][1]
    /\ (hist = <<R(1000, 1), R(1100, 1), R(900, 1)>> /\ ledger.initial_equity_usdt = R(1000, 1)) =>
          /\ ledger.equity_peak_usdt = R(1100, 1)
          /\ ledger.max_drawdown_usdt = R(200, 1)

C19_Step ==
    /\ RGe(ledger'.equity_peak_usdt, ledger.equity_peak_usdt)
    /\ RGe(ledger'.max_drawdown_usdt, ledger.max_drawdown_usdt)

\* C19: after any calls of mark_to_market (with trades in between),
\* equity_peak is the largest of its initial value and the equities marked
\* so far, max_drawdown is the largest (running peak - equity) seen so far,
\* neither ever decreases, and a call that returns gives (equity, equity -
\* initial_equity) with equity = paper_usdt + paper_btc * mid; the equities
\* 1000, 1100, 900 give a peak of 1100 and a drawdown of 200.
C19_MarkToMarket == []C19_State /\ [][C19_Step]_vars

\* The equities 1000, 1100 and 900 were marked, in this order, on a ledger
\* created with an equity of 1000.
C19_Witness ==
    /\ Marked
    /\ hist = <<R(1000, 1), R(1100, 1), R(900, 1)>>
    /\ ledger.initial_equity_usdt = R(1000, 1)
    /\ ledger.max_drawdown_usdt = R(200, 1)

\* A step that is a call of apply_dry_run_trade.
TradeStep == ret' # ret /\ ret'[1].op = "apply_dry_run_trade"

\* The conditions without which the claim lets no trade happen.
MayTrade(args) ==
    /\ args.approved
    /\ args.action_taken[1] = "DRY_RUN"
    /\ args.side \in {BUY, SELL}
    /\ RGt(args.best_bid, Zero)
    /\ RGt(args.best_ask, Zero)
    /\ RLt(args.best_bid, args.best_ask)

\* The call returned a result that is not traded and has no price, no
\* quantity, no notional, no fee and no P&L.
EmptyResult(args) ==
    /\ ~args.raised
    /\ args.result[1] = NotTraded(args.result[1].side, Zero)

\* C20: a call of apply_dry_run_trade leaves the ledger (balances,
\* trade_count, win_count, peak, drawdown) unchanged and returns an empty
\* result unless the decision is approved, action_taken starts with
\* DRY_RUN_, side is BUY or SELL, best_bid > 0, best_ask > 0 and best_bid <
\* best_ask.
C20_Original ==
    [][(TradeStep /\ ~MayTrade(ret'[1])) =>
          (ledger' = ledger /\ EmptyResult(ret'[1]))]_vars

----------------------------------------------------------------------------
(* Claims about paper trades (SpecRoundTrip, SpecPaper).                   *)

\* The call of the round trip: an approved simulated BUY of 100 USDT on the
\* ledger with 1000 USDT and no BTC, at the book <<bid, ask>>.
RoundTripBuy(bid, ask) ==
    /\ TradeStep
    /\ ledger.paper_usdt = R(1000, 1) /\ ledger.paper_btc = Zero
    /\ ret'[1].approved /\ ret'[1].action_taken = <<"DRY_RUN", BUY>>
    /\ ret'[1].side = BUY /\ ret'[1].quote_order_qty = R(100, 1)
    /\ ret'[1].best_bid = bid /\ ret'[1].best_ask = ask

\* The trade bought 1 BTC and left 900 USDT and 1 BTC.
Bought ==
    /\ ret'[1].result[1].traded
    /\ ret'[1].result[1].executed_qty_btc = One
    /\ ledger'.paper_usdt = R(900, 1)
    /\ ledger'.paper_btc = One

\* C21 as stated: the BUY at best_bid = best_ask = 100 buys 1 BTC, leaves
\* (900, 1) and an equity of 1000.
C21_Original ==
    [][RoundTripBuy(R(100, 1), R(100, 1)) =>
          /\ Bought
          /\ RAdd(ledger'.paper_usdt, RMul(ledger'.paper_btc, R(100, 1))) = R(1000, 1)]_vars

\* C21 (amended): from 1000 USDT, 0 BTC, no fee and no slippage, an
\* approved simulated BUY of 100 at best_bid = 99 / best_ask = 100 buys 1
\* BTC and leaves (900 USDT, 1 BTC); the equity is 1000 at a mid of 100 and
\* 999.5 at the mid of that book (trade P&L -0.5).  At best_bid = best_ask
\* = 100 the call is rejected and the ledger stays as it was.
C21_RoundTrip ==
    [][/\ RoundTripBuy(R(99, 1), R(100, 1)) =>
             /\ Bought
             /\ RAdd(ledger'.paper_usdt, RMul(ledger'.paper_btc, R(100, 1))) = R(1000, 1)
             /\ ret'[1].result[1].trade_pnl_usdt = R(-1, 2)
       /\ RoundTripBuy(R(100, 1), R(100, 1)) =>
             /\ ledger' = ledger
             /\ ~ret'[1].result[1].traded]_vars

\* After the BUY at 99/100 the ledger, holding 900 USDT and 1 BTC, was
\* marked at a mid of 100 with an equity of 1000.
C21_Witness ==
    /\ Marked
    /\ ret[1].mid = R(100, 1)
    /\ ret[1].result[1][1] = R(1000, 1)
    /\ ledger.paper_usdt = R(900, 1) /\ ledger.paper_btc = One
    /\ ledger.trade_count = 1

\* A call of apply_dry_run_trade that returned a traded result.
Traded(side) == TradeStep /\ ~ret'[1].raised /\ ret'[1].result[1].traded /\ ret'[1].side = side

Slip == RDiv(ledger.slippage_bps, R(10000, 1))

BookMid(args) == RDiv(RAdd(args.best_bid, args.best_ask), R(2, 1))

EquityAt(l, mid) == RAdd(l.paper_usdt, RMul(l.paper_btc, mid))

\* The P&L reported is the equity after the trade minus the equity before
\* it, both at the mid of the book.
PnlReported ==
    ret'[1].result[1].trade_pnl_usdt =
        RSub(EquityAt(ledger', BookMid(ret'[1])), EquityAt(ledger, BookMid(ret'[1])))

\* The SELL of the claim: fills at best_bid * (1 - slippage), takes qty =
\* min(quantity, paper_btc) off the base balance and adds qty * exec_price *
\* (1 - fee_rate) to the quote balance.
SellFill ==
    LET exec_px == RMul(ret'[1].best_bid, RSub(One, Slip))
        qty == RMin(ret'[1].quantity, ledger.paper_btc)
    IN  /\ ret'[1].result[1].exec_px = exec_px
        /\ ledger'.paper_btc = RSub(ledger.paper_btc, qty)
        /\ ledger'.paper_usdt =
              RAdd(ledger.paper_usdt, RMul(RMul(qty, exec_px), RSub(One, ledger.fee_rate)))

\* The BUY: fills at best_ask * (1 + slippage), takes spend = min(quote
\* qty, paper_usdt) off the quote balance and adds net / exec_price to the
\* base balance.
BuyFill(net(_)) ==
    LET exec_px == RMul(ret'[1].best_ask, RAdd(One, Slip))
        spend == RMin(ret'[1].quote_order_qty, ledger.paper_usdt)
    IN  /\ ret'[1].result[1].exec_px = exec_px
        /\ ledger'.paper_usdt = RSub(ledger.paper_usdt, spend)
        /\ ledger'.paper_btc = RAdd(ledger.paper_btc, RDiv(net(spend), exec_px))

NetOfFee(spend) == RSub(spend, RMul(spend, ledger.fee_rate))

NetOrZero(spend) == IF RGt(NetOfFee(spend), Zero) THEN NetOfFee(spend) ELSE Zero

\* C22 as stated: a BUY adds (spend - spend * fee_rate) / exec_price to the
\* base balance.
C22_Original ==
    [][/\ Traded(BUY) => (BuyFill(NetOfFee) /\ PnlReported)
       /\ Traded(SELL) => (SellFill /\ PnlReported)]_vars

\* C22 (amended): as stated, except that a BUY adds max(0, spend - spend *
\* fee_rate) / exec_price to the base balance: with fee_rate > 1 it adds
\* nothing instead of taking BTC away.
C22_Fill ==
    [][/\ Traded(BUY) => (BuyFill(NetOrZero) /\ PnlReported)
       /\ Traded(SELL) => (SellFill /\ PnlReported)]_vars

\* A SELL was executed with a fee and with slippage, for less than the
\* base balance.
C22_Witness ==
    /\ ret # None /\ ret[1].op = "apply_dry_run_trade" /\ ~ret[1].raised
    /\ ret[1].result[1].traded
    /\ ret[1].side = SELL
    /\ ret[1].result[1].exec_px = R(810, 1)
    /\ ret[1].result[1].fee_usdt = R(81, 2)
    /\ RGt(ledger.paper_btc, Zero)

\* The step is a call of apply_dry_run_trade that returned traded = true.
TradedStep == TradeStep /\ ~ret'[1].raised /\ ret'[1].result[1].traded

C23_Step ==
    /\ ledger'.trade_count = ledger.trade_count + (IF TradedStep THEN 1 ELSE 0)
    /\ ledger'.win_count = ledger.win_count +
          (IF TradedStep /\ RGt(ret'[1].result[1].trade_pnl_usdt, Zero) THEN 1 ELSE 0)

\* C23: a call of apply_dry_run_trade that returns traded = true adds one
\* to trade_count, and one to win_count exactly when the trade P&L is > 0;
\* every other call (a non-traded result, mark_to_market) changes neither.
\* Both start at 0, so trade_count is the number of traded results so far
\* and win_count <= trade_count.
C23_Counts == [](ledger.win_count <= ledger.trade_count) /\ [][C23_Step]_vars

\* Two trades were executed, the second one just now, none of them a win.
C23_Witness ==
    /\ ret # None /\ ret[1].op = "apply_dry_run_trade" /\ ~ret[1].raised
    /\ ret[1].result[1].traded
    /\ RLt(ret[1].result[1].trade_pnl_usdt, Zero)
    /\ ledger.trade_count = 2
    /\ ledger.win_count = 0

----------------------------------------------------------------------------
(* Claims about the errors of mark_to_market (SpecOverflow).               *)

\* C24: a call of mark_to_market that raises (non-finite mid, non-finite
\* balance, non-finite equity or P&L) leaves every field of the ledger as
\* it was before the call.
C24_Original ==
    [][(ret' # ret /\ ret'[1].op = "mark_to_market" /\ ret'[1].raised) =>
          ledger' = ledger]_vars

----------------------------------------------------------------------------
(* Claims about the reports of a calibration (SpecAttempt).                *)

\* The divisions of the grid search (calibration.py lines 199, 204, 205):
\* by n for a theta that reaches min_trades, and by window_size.
DividesByZero ==
    \/ settings.calibration_w_polls = 0
    \/ /\ FullWindow
       /\ \E theta \in Grid :
             Selected(theta) >= settings.calibration_min_trades /\ Selected(theta) = 0

\* The reason of the report a window and a grid call for.
ReasonDue(report) ==
    IF ~FullWindow THEN report.reason = "insufficient_window"
    ELSE IF Grid = {} THEN report.reason = "empty_grid"
    ELSE report.reason \in {"ok", "no_valid_candidate"}

\* C25: a calibration never divides by zero and always returns a report;
\* its reason is "insufficient_window" on a window shorter than W,
\* "empty_grid" on an empty grid, and "ok" or "no_valid_candidate"
\* otherwise, and theta_hat is present exactly when the reason is "ok".  An
\* attempt that ends with "empty_grid" or "insufficient_window" leaves
\* theta_live as it was: the calibrator trades on with it, or stays in
\* WARMUP when there is none.
C25_State ==
    /\ ~DividesByZero
    /\ ret # None =>
          /\ ReasonDue(ret[1].report)
          /\ ret[1].report.theta_hat # None <=> ret[1].report.reason = "ok"

C25_Step ==
    (AttemptStep /\ ret'[1].report.reason \in {"empty_grid", "insufficient_window"}) =>
        /\ cal'.theta_live = cal.theta_live
        /\ cal'.state = IF cal.theta_live = None THEN WARMUP ELSE TRADING

C25_Reports == []C25_State /\ [][C25_Step]_vars

\* An attempt on a full window and an empty grid has ended in WARMUP, and
\* the grid search was called on a window shorter than W.
C25_Witness ==
    /\ Attempted
    /\ ret[1].report.reason = "empty_grid"
    /\ cal.state = WARMUP
    /\ cal.theta_live = None

C25_ShortWindow ==
    /\ Calibrated
    /\ ret[1].report.reason = "insufficient_window"
    /\ ret[1].report.window_obs = AttemptWindow - 1

----------------------------------------------------------------------------
(* Claims about the position sizing (SpecNotional).                        *)

Clamp01(x) == IF RLt(x, Zero) THEN Zero ELSE IF RGt(x, One) THEN One ELSE x

\* min(|imbalance|, 1)
AbsImbalance == IF RGt(RAbs(call.imbalance), One) THEN One ELSE RAbs(call.imbalance)

\* The scale the sizing mode prescribes.
ScaleDue ==
    IF call.cfg.position_sizing_mode = "linear_abs" THEN AbsImbalance
    ELSE IF RGe(call.threshold_used, One) THEN Zero
    ELSE Clamp01(RDiv(RSub(AbsImbalance, call.threshold_used),
                      RSub(One, call.threshold_used)))

\* C26: compute_notional_target_usdt returns max_notional when position
\* sizing is disabled; when it is enabled and the imbalance is finite it
\* returns max_notional * scale, a value in [0, max_notional], with scale =
\* min(|imbalance|, 1) in linear_abs mode, scale = clamp((min(|imbalance|,
\* 1) - threshold_used) / (1 - threshold_used), 0, 1) in linear_excess
\* mode, and scale = 0 whenever threshold_used >= 1.
C26_NotionalTarget ==
    rpc = "done" =>
        IF ~call.cfg.enable_position_sizing
            THEN ret[1].result = call.cfg.max_notional_per_trade_usdt
        ELSE IsFinite(call.imbalance) =>
            /\ ret[1].result = RMul(call.cfg.max_notional_per_trade_usdt, ScaleDue)
            /\ RGe(ret[1].result, Zero)
            /\ RLe(ret[1].result, call.cfg.max_notional_per_trade_usdt)

\* linear_excess with the imbalance a third of the way from the threshold
\* to 1: a third of max_notional.
C26_Witness ==
    /\ rpc = "done"
    /\ call.cfg.enable_position_sizing
    /\ call.cfg.position_sizing_mode = "linear_excess"
    /\ call.imbalance = R(1, 2)
    /\ call.threshold_used = R(1, 4)
    /\ call.cfg.max_notional_per_trade_usdt = R(MaxUsdt, 1)
    /\ ret[1].result = RMul(R(MaxUsdt, 1), R(1, 3))

----------------------------------------------------------------------------
(* Claims about candidates without deviation (SpecAttempt).                *)

SelectedReturns(theta) == SignedReturns(cal.labeled_obs, theta)

\* The signed returns theta selects are all the same, so that their sample
\* standard deviation is 0.
ZeroDeviation(theta) ==
    \A i, j \in 1..Len(SelectedReturns(theta)) :
        SelectedReturns(theta)[i] = SelectedReturns(theta)[j]

InfiniteScore(theta) == ~IsFinite(ScoreOf(theta).score_sq)

\* C27 as stated: when a candidate with an infinite score and a candidate
\* with a finite score both reach min_trades, the report names a candidate
\* with an infinite score.
C27_Original ==
    (/\ Calibrated
     /\ FullWindow
     /\ \E t1, t2 \in ValidThetas : InfiniteScore(t1) /\ ~InfiniteScore(t2)) =>
        ~IsFinite(ret[1].report.score_sq)

\* C27 (amended): a candidate whose selected returns have sample standard
\* deviation zero scores +inf when their mean is > 0 and -inf otherwise;
\* when some candidate that reaches min_trades scores +inf the report names
\* a candidate with score +inf, and a candidate with score -inf is never
\* reported when a candidate with a finite score reaches min_trades.
C27_ZeroDeviation ==
    (Calibrated /\ FullWindow) =>
        /\ \A theta \in ValidThetas :
              ZeroDeviation(theta) =>
                  ScoreOf(theta).score_sq =
                      IF RGt(SelectedReturns(theta)[1], Zero) THEN PosInf ELSE NegInf
        /\ (\E theta \in ValidThetas : ScoreOf(theta).score_sq = PosInf) =>
              ret[1].report.score_sq = PosInf
        /\ (\E theta \in ValidThetas : IsFinite(ScoreOf(theta).score_sq)) =>
              ret[1].report.score_sq # NegInf

\* A candidate with score +inf was reported although a lower theta has a
\* finite positive score.
C27_Witness ==
    /\ Calibrated
    /\ FullWindow
    /\ ret[1].report.score_sq = PosInf
    /\ \E theta \in ValidThetas :
          /\ RLt(theta, ret[1].report.theta_hat[1])
          /\ IsFinite(ScoreOf(theta).score_sq)
          /\ RGt(ScoreOf(theta).score_sq, Zero)

----------------------------------------------------------------------------
(* Claims about the threshold of the poll loop (SpecLoop).                 *)

\* C28: at every processed poll the threshold passed to
\* signal_from_imbalance is >= 0, with or without a calibrator and for
\* every configured default threshold.
C28_Original ==
    sig # NoSig => RGe(sig.threshold, Zero)

----------------------------------------------------------------------------
(* Claims about the filters of an approved SELL (SpecRisk).                *)

\* C29: every approved SELL decision has a quantity that is > 0, at least
\* the filter min qty, at most the filter max qty when that is > 0, and
\* whose notional quantity * mid is at least the exchange minimum notional.
C29_Original ==
    ApprovedSell =>
        /\ RGt(decision.quantity, Zero)
        /\ RGe(decision.quantity, call.filters.min_qty)
        /\ RGt(call.filters.max_qty, Zero) => RLe(decision.quantity, call.filters.max_qty)
        /\ RGe(RMul(decision.quantity, call.mid), call.filters.min_notional)

----------------------------------------------------------------------------
(* Claims about the capacities of the queues (SpecQueues).                 *)

AllLabels == LabelsFrom(hist, settings.calibration_horizon_polls, 1)

\* C30: after every poll the pending queue holds at most H entries, the
\* labeled window at most W observations and the signal history at most M
\* signals, and each holds the most recent entries in the order of their
\* arrival: the last H accepted updates, the last W labels and the last M
\* raw signals, the oldest having been removed on overflow.
C30_Queues ==
    /\ Len(cal.pending_obs) <= settings.calibration_horizon_polls
    /\ Len(cal.labeled_obs) <= settings.calibration_w_polls
    /\ Len(signal_history) <= settings.confirmation_m
    /\ cal.pending_obs = LastN(hist, settings.calibration_horizon_polls)
    /\ cal.labeled_obs = LastN(AllLabels, settings.calibration_w_polls)
    /\ signal_history = LastN(fed, settings.confirmation_m)

\* Each of the three queues is full and has lost an entry that differs
\* from what it holds.
C30_Witness ==
    /\ Len(hist) > settings.calibration_horizon_polls
    /\ Len(AllLabels) > settings.calibration_w_polls
    /\ Len(fed) > settings.confirmation_m
    /\ settings.confirmation_m > 1
    /\ hist[1] # cal.pending_obs[1]
    /\ AllLabels[1] # cal.labeled_obs[1]
    /\ fed[1] # signal_history[1]

----------------------------------------------------------------------------
(* Claims about the lifecycle of the calibrator (SpecCalibrator).          *)

\* C31: in both modes, after any sequence of update and current_threshold
\* calls, the state is WARMUP exactly when no live threshold exists and is
\* CALIBRATING or TRADING exactly when one exists.
C31_Lifecycle ==
    /\ cal.state \in {WARMUP, CALIBRATING, TRADING}
    /\ cal.state = WARMUP <=> cal.theta_live = None
    /\ cal.state \in {CALIBRATING, TRADING} <=> cal.theta_live # None

\* A recalibration has failed and the calibrator trades on with the live
\* threshold it had.
C31_Witness ==
    /\ cal.op = "update"
    /\ cal.ran
    /\ cal.last_report[1].theta_hat = None
    /\ cal.theta_live # None
    /\ cal.state = TRADING


\* The state changes an update may make in either mode, and those of the
\* rolling mode only.
EitherMode ==
    {<<WARMUP, WARMUP>>, <<WARMUP, CALIBRATING>>, <<CALIBRATING, TRADING>>,
     <<TRADING, TRADING>>}

RollingOnly == {<<TRADING, CALIBRATING>>, <<CALIBRATING, CALIBRATING>>}

\* C32: across one update call the state changes along WARMUP -> WARMUP,
\* WARMUP -> CALIBRATING, CALIBRATING -> TRADING or TRADING -> TRADING, and
\* in rolling mode also along TRADING -> CALIBRATING or CALIBRATING ->
\* CALIBRATING: it never returns to WARMUP and never goes from WARMUP to
\* TRADING.
C32_Transitions ==
    [][cal'.op = "update" =>
          \/ <<cal.state, cal'.state>> \in EitherMode
          \/ Rolling /\ <<cal.state, cal'.state>> \in RollingOnly]_vars

\* A rolling calibrator has gone from CALIBRATING to CALIBRATING in one
\* update: the second calibration followed the first at once.
C32_Witness ==
    /\ Rolling
    /\ cal.op = "update"
    /\ cal.state = CALIBRATING
    /\ cal.successes = 2
    /\ cal.ran
    /\ settings.calibration_h_polls = 1

----------------------------------------------------------------------------
(* Claims about the range of the live threshold (SpecAttempt).             *)

\* C33: whenever a live threshold exists it is strictly positive and lies
\* between the smallest and the largest value of the threshold grid.
C33_Original ==
    cal.theta_live # None =>
        /\ RGt(cal.theta_live[1], Zero)
        /\ \E lo, hi \in Grid :
              RLe(lo, cal.theta_live[1]) /\ RLe(cal.theta_live[1], hi)

\* The same without the strict sign: a live threshold is never negative
\* and lies between the smallest and the largest value of the grid.
C33_WithinGrid ==
    cal.theta_live # None =>
        /\ RGe(cal.theta_live[1], Zero)
        /\ \E lo, hi \in Grid :
              RLe(lo, cal.theta_live[1]) /\ RLe(cal.theta_live[1], hi)

----------------------------------------------------------------------------
(* Claims about the balances of the paper ledger (SpecPaper).              *)

\* C34: for a ledger created with starting balances >= 0, a fee_rate >= 0
\* and slippage_bps >= 0, the quote balance and the base balance are both
\* >= 0 after any sequence of apply_dry_run_trade and mark_to_market calls.
C34_Original ==
    RGe(ledger.paper_usdt, Zero) /\ RGe(ledger.paper_btc, Zero)


\* The last call was an apply_dry_run_trade that returned traded = true.
TradeDone ==
    ret # None /\ ret[1].op = "apply_dry_run_trade" /\ ~ret[1].raised
        /\ ret[1].result[1].traded

\* C35: every executed paper trade has a trade P&L strictly below 0, and
\* win_count is 0 after any sequence of trades.
C35_Original ==
    /\ TradeDone => RLt(ret[1].result[1].trade_pnl_usdt, Zero)
    /\ ledger.win_count = 0

\* The same for the books whose bid and ask are numbers.
C35_FiniteBook ==
    (TradeDone /\ IsFinite(ret[1].best_bid) /\ IsFinite(ret[1].best_ask)) =>
        RLt(ret[1].result[1].trade_pnl_usdt, Zero)

----------------------------------------------------------------------------
(* Claims about the order execution (SpecExecute).                         *)

ExecuteDone == rpc = "done" /\ ret # None /\ ret[1].op = "execute_trade_decision"

\* C36: execute_trade_decision posts an order only when the decision is
\* approved, its side is BUY or SELL and dry_run is false, and then it does
\* post one; with dry_run true no order is posted and an approved decision
\* (other than HOLD) yields the action DRY_RUN_<side> with nothing placed; a
\* HOLD or unapproved decision never posts an order.  A result reports an
\* order as placed only when one was posted.
C36_Posts ==
    ExecuteDone =>
        /\ ret[1].posted <=>
               (decision.approved /\ decision.side \in {BUY, SELL} /\ ~settings.dry_run)
        /\ ret[1].result # None =>
               /\ ret[1].result[1].placed <=> ret[1].posted
               /\ (settings.dry_run /\ decision.approved /\ decision.side # HOLD) =>
                      ret[1].result[1].action_taken = <<"DRY_RUN", decision.side>>
               /\ (decision.side = HOLD \/ ~decision.approved) =>
                      ~ret[1].result[1].approved

\* An approved SELL in dry-run mode: DRY_RUN_SELL, nothing posted.
C36_Witness ==
    /\ ExecuteDone
    /\ settings.dry_run
    /\ decision.approved
    /\ decision.side = SELL
    /\ ~ret[1].posted
    /\ ret[1].result[1].action_taken = <<"DRY_RUN", SELL>>

----------------------------------------------------------------------------
(* Further claims about the poll loop (SpecLoop).                          *)

\* A step that starts a poll, and one whose poll ends before the calibrator
\* is updated (the fetch failed or the top of book is invalid).
PollStep == loop'.polls = loop.polls + 1

SkippedStep == PollStep /\ loop'.processed = loop.processed

ProcessedStep == PollStep /\ loop'.processed = loop.processed + 1

\* What a skipped poll has to leave alone.
Carried ==
    /\ cal' = cal
    /\ signal_history' = signal_history
    /\ loop'.pending_signal = loop.pending_signal
    /\ loop'.last_trade_ts = loop.last_trade_ts
    /\ ledger' = ledger

ErroredStep == PollStep /\ loop'.error_count > loop.error_count

StoppedForErrors == loop.pc = "shutdown" /\ loop.exit = "max_consecutive_errors"

\* C38 as stated: the loop stops for errors only once more than
\* max_consecutive_errors polls in a row have had an error.
C38_Original ==
    StoppedForErrors => loop.error_run > settings.max_consecutive_errors

\* C38, amended: the consecutive-error count rises by one per errored poll
\* and is left as it is by a poll skipped for an invalid top of book; the
\* loop stops for errors exactly when the count first exceeds
\* max_consecutive_errors, and never starts a poll while it does.
C38_Counts ==
    /\ [](loop # NoLoop =>
            /\ StoppedForErrors =>
                   loop.consecutive_errors = settings.max_consecutive_errors + 1
            /\ loop.consecutive_errors > settings.max_consecutive_errors =>
                   StoppedForErrors
            /\ loop.consecutive_errors >= loop.error_run)
    /\ [][/\ ErroredStep =>
              /\ loop'.consecutive_errors = loop.consecutive_errors + 1
              /\ loop'.error_count = loop.error_count + 1
          /\ (SkippedStep /\ ~ErroredStep) =>
              loop'.consecutive_errors = loop.consecutive_errors
          /\ PollStep =>
              loop.consecutive_errors <= settings.max_consecutive_errors]_vars

\* The loop has stopped for errors after two failed polls with a skipped
\* poll between them: only one poll in a row had an error.
C38_Witness ==
    /\ loop # NoLoop
    /\ StoppedForErrors
    /\ settings.max_consecutive_errors = 1
    /\ loop.polls = 3
    /\ loop.error_count = 2
    /\ loop.error_run = 1

RateLimited(l) == l.status_for_backoff \in {418, 429}

\* The poll of the step has ended in a sleep: the loop goes on.
SleptStep == PollStep /\ loop'.pc = "loop"

Limited == loop # NoLoop /\ settings.max_polls > 0

\* C40: with max_polls > 0 the loop never counts more than max_polls polls,
\* errored and skipped polls included, and it reaches the shutdown step; in
\* dry-run mode the shutdown step sends no cancel-open-orders request.
C40_Terminates ==
    /\ [](Limited => loop.polls <= settings.max_polls)
    /\ []((loop # NoLoop /\ settings.dry_run) => ~loop.cancel_requested)
    /\ (Limited ~> loop.pc = "shutdown")

\* A dry run has ended at max_polls = 2 with a failed poll and a skipped
\* poll, without a cancel request.
C40_Witness ==
    /\ Limited
    /\ settings.dry_run
    /\ loop.pc = "shutdown"
    /\ loop.exit = "max_polls"
    /\ loop.polls = settings.max_polls
    /\ loop.error_count = 1
    /\ loop.processed = 0
    /\ ~loop.cancel_requested

====
